---- MODULE Spec2Model ----
(***************************************************************************)
(* A model of the zyrotech backend: the OTP lifecycle (issue, cooldown,    *)
(* expiry, consumption), the password-reset token, signup / login / the    *)
(* auth middleware, and bot subscriptions.                                 *)
(*                                                                         *)
(* Every handler is a sequence of database operations separated by awaits; *)
(* each database operation is one atomic step, and the steps of different  *)
(* requests interleave freely.  Time is counted in seconds.                *)
(***************************************************************************)
EXTENDS Integers, FiniteSets, Sequences, TLC

VARIABLES
    now,        \* Date.now(), in seconds
    users,      \* the User collection: _id -> document
    otps,       \* the OTP collection: a set of documents
    otpSeq,     \* number of OTP documents created so far (next _id)
    otpReqs,    \* in-flight requests of the OTP endpoints, per slot
    issued,     \* history: every OTP document ever created
    consumed,   \* history: _ids of OTP documents a verifyOTP returned true for
    resetReqs,  \* in-flight requests of the password-reset endpoints, per slot
    tokenSeq,   \* number of reset tokens generated so far
    issuedAt,   \* history: reset token -> the time forgotPassword generated it
    spent,      \* history: reset tokens a reset-password request succeeded with
    authReqs,   \* in-flight signup / login / Google / protected-route requests
    jwts,       \* history: the tokens login and googleAuth returned, with the user
    subs,       \* the BotSubscription collection: a set of documents
    subSeq,     \* number of BotSubscription documents created so far
    subReqs,    \* in-flight requests of the subscription routes, per slot
    thrown,     \* the error a handler passed to next(), until it is answered
    response,   \* the error response being sent
    kycs,       \* the KYC collection: a set of documents
    kycReqs,    \* in-flight basic-details submissions, per slot
    groups,     \* the Group collection: a set of documents
    groupSeq,   \* number of Group documents created so far
    bots,       \* the Bot collection: a set of documents
    botSeq,     \* number of Bot documents created so far
    botReqs,    \* in-flight requests of the bot and group routes, per slot
    signals,      \* the Signal collection: records id, botId, tradeId, direction
    signalSeq,    \* number of Signal documents ever created
    signalReqs    \* per request slot: the POST /api/signals request in flight

otpVars == <<otps, otpSeq, otpReqs, issued, consumed>>
resetVars == <<resetReqs, tokenSeq, issuedAt, spent>>
authVars == <<authReqs, jwts>>
subVars == <<subs, subSeq, subReqs>>
errVars == <<thrown, response>>
kycVars == <<kycs, kycReqs>>
botVars == <<groups, groupSeq, bots, botSeq, botReqs>>
signalVars == <<signals, signalSeq, signalReqs>>

vars == <<now, users, otpVars, resetVars, authVars, subVars, errVars, kycVars, botVars, signalVars>>

\* ---------------------------------------------------------------- bounds
TickStep == 150
MaxTime == 450
MaxOtps == 2
ResetTickStep == 900
ResetMaxTime == 2700
MaxTokens == 2
AuthTickStep == 302400
AuthMaxTime == 604800
MaxJwts == 2
MaxUsers == 2
MaxSubs == 3
MaxBots == 2
MaxGroups == 2
MaxSignals == 3
SubMaxTime == 1

\* ------------------------------------------------------ program constants
DefaultExpiryMinutes == 5
DefaultCooldownSeconds == 60

\* ----------------------------------------------------------------- values
Undef == "undefined"
Emails == {"a@x.io", "b@x.io"}
Phones == {"+911", "+912"}
Codes == {"111111", "222222"}
\* two requests in flight at a time: every race of two requests is covered
ReqIds == {1, 2}

NoPassword == [alg |-> "none", of |-> ""]
NoToken == [alg |-> "none", of |-> 0]
NoDate == -1
\* undefined where an _id is expected; findById(undefined) finds no document
UndefId == 0

\* bcrypt.hash in the pre-save hook, and bcrypt.compare
BcryptHash(pw) == [alg |-> "bcrypt", of |-> pw]
comparePassword(stored, candidate) == stored = BcryptHash(candidate)

\* A document as User.create stores it (schema defaults applied).
NewUser(email, password, googleId, verified) ==
    [email |-> email,
     phoneNumber |-> Undef,
     password |-> IF password = "" THEN NoPassword ELSE BcryptHash(password),
     googleId |-> googleId,
     isEmailVerified |-> verified,
     isPhoneVerified |-> FALSE,
     resetPasswordToken |-> NoToken,
     resetPasswordExpires |-> NoDate]

UserIds == DOMAIN users
UsersWithEmail(e) == {u \in UserIds : users[u].email = e}
UsersWithPhone(p) == {u \in UserIds : users[u].phoneNumber = p}

\* (mutant) no unique index on the User collection
UserIndexConflict_None(u, d) == FALSE

\* The unique indexes of the User collection (email; phoneNumber and googleId
\* sparse): would writing document d under _id u violate one of them?
UserIndexConflict(u, d) ==
    \E v \in UserIds \ {u} :
        \/ users[v].email = d.email
        \/ d.phoneNumber # Undef /\ users[v].phoneNumber = d.phoneNumber
        \/ d.googleId # Undef /\ users[v].googleId = d.googleId

\* ------------------------------------------------------------------- OTP
NoOtp == [id |-> 0, email |-> Undef, phone |-> Undef, otp |-> "", type |-> "",
          expiresAt |-> NoDate, createdAt |-> NoDate]

OtpSubject(o) == IF o.type = "email" THEN o.email ELSE o.phone

\* createOTP: the document handed to OTP.create
OtpData(id, emailOrPhone, type, code, expiryMinutes, t) ==
    [id |-> id,
     email |-> IF type = "email" THEN emailOrPhone ELSE Undef,
     phone |-> IF type = "email" THEN Undef ELSE emailOrPhone,
     otp |-> code,
     type |-> type,
     expiresAt |-> t + expiryMinutes * 60,
     createdAt |-> t]

\* (mutant) the expiry compared with $gte
VerifyOTPQuery_Gte(emailOrPhone, code, type, t) ==
    {o \in otps : /\ o.otp = code
                  /\ o.type = type
                  /\ OtpSubject(o) = emailOrPhone
                  /\ o.expiresAt >= t}

\* verifyOTP's query
VerifyOTPQuery(emailOrPhone, code, type, t) ==
    {o \in otps : /\ o.otp = code
                  /\ o.type = type
                  /\ OtpSubject(o) = emailOrPhone
                  /\ o.expiresAt > t}

\* checkOTPCooldown's query
CooldownQuery(emailOrPhone, type, cooldownSeconds, t) ==
    {o \in otps : /\ o.type = type
                  /\ OtpSubject(o) = emailOrPhone
                  /\ o.createdAt > t - cooldownSeconds}

checkOTPCooldown(emailOrPhone, type, t) ==
    CooldownQuery(emailOrPhone, type, DefaultCooldownSeconds, t) # {}

\* The TTL index on expiresAt (expireAfterSeconds: 0)
TTLExpired(o, t) == t > o.expiresAt

\* A request slot: the handler's locals, its position, and its response.
\* askedExpired / askedConsumed are history flags, set by verifyOTP's lookup:
\* the code asked for had been issued for that subject and type and had
\* already expired unconsumed / had already been consumed.
IdleReq == [op |-> "idle", pc |-> "idle", user |-> 0, email |-> "", phone |-> "",
            otp |-> "", rec |-> NoOtp, docPhone |-> Undef, docVerified |-> FALSE,
            status |-> 0, code |-> "", ret |-> "",
            askedExpired |-> FALSE, askedConsumed |-> FALSE]

\* A response is delivered as soon as it is produced: while one is pending
\* nothing else runs (res.json does not touch the database, so no behaviour of
\* the store is lost).
Quiet == \A r \in ReqIds : otpReqs[r].pc # "done"

\* The slots are interchangeable, so a new request takes slot 2 only while
\* slot 1 is busy.
Free(r) ==
    /\ otpReqs[r].pc = "idle"
    /\ r = 2 => otpReqs[1].pc # "idle"

Deliver(r) ==
    /\ otpReqs[r].pc = "done"
    /\ otpReqs' = [otpReqs EXCEPT ![r] = IdleReq]
    /\ UNCHANGED <<now, users, otps, otpSeq, issued, consumed>>

\* The response ends the request; of its locals nothing outlives it.
Respond(q, status, code) ==
    [IdleReq EXCEPT !.op = q.op, !.pc = "done", !.status = status, !.code = code,
                    !.askedExpired = q.askedExpired,
                    !.askedConsumed = q.askedConsumed]

\* A direct call of a utility returns its value to the caller.
Return(q, value) ==
    [IdleReq EXCEPT !.op = q.op, !.pc = "done", !.ret = value,
                    !.askedExpired = q.askedExpired,
                    !.askedConsumed = q.askedConsumed]

\* The response to an error passed to next(): an AppError keeps its status,
\* anything else (a duplicate key, a failed mail) is a 500.
Fail(q, status, code) == Respond(q, status, code)

\* One account, created by password signup, email not yet verified.
InitUsers == [u \in {1} |-> NewUser("a@x.io", "pw", Undef, FALSE)]

\* A reset-endpoint request slot
IdleResetReq == [op |-> "idle", pc |-> "idle", user |-> 0, email |-> "", token |-> 0,
                 newPassword |-> "", confirmPassword |-> "", expires |-> NoDate,
                 status |-> 0, code |-> ""]

\* A request slot of the signup / login / Google / auth-middleware model
NoJwt == [payload |-> [claim |-> "", value |-> 0], exp |-> 0, sig |-> "none"]
IdleAuthReq == [op |-> "idle", pc |-> "idle", email |-> "", password |-> "",
                user |-> 0, googleId |-> Undef, bearer |-> NoJwt,
                status |-> 0, code |-> "", token |-> NoJwt, reqUser |-> 0]

\* A request slot of the subscription routes
IdleSubReq == [op |-> "idle", pc |-> "idle", user |-> 0, bot |-> 0, sub |-> 0,
               status |-> 0, code |-> ""]

\* No error is pending; no response is being sent
NoError == [name |-> "", message |-> "", statusCode |-> 0, status |-> "",
            isOperational |-> FALSE]
NoResponse == [http |-> 0, body |-> [status |-> "", message |-> ""]]

\* A request slot of POST /api/kyc/basic-details
IdleKycReq == [op |-> "idle", pc |-> "idle", user |-> 0, pan |-> "", aadharNumber |-> "",
               seen |-> "", status |-> 0, code |-> ""]

\* A request slot of the bot and group routes
IdleBotReq == [op |-> "idle", pc |-> "idle", user |-> 0, id |-> 0, name |-> "",
               groupId |-> 0, curName |-> "", curGroup |-> 0, path |-> <<>>,
               status |-> 0, code |-> "", data |-> {}]

\* A request slot of POST /api/signals
IdleSignalReq == [op |-> "idle", pc |-> "idle", botId |-> 0, tradeId |-> 0,
                  direction |-> "", status |-> 0, code |-> ""]

\* The collections other than User are empty, no request is in flight.
EmptyStores ==
    /\ otps = {}
    /\ otpSeq = 0
    /\ otpReqs = [r \in ReqIds |-> IdleReq]
    /\ issued = {}
    /\ consumed = {}
    /\ resetReqs = [r \in ReqIds |-> IdleResetReq]
    /\ tokenSeq = 0
    /\ issuedAt = <<>>
    /\ spent = {}
    /\ authReqs = [r \in ReqIds |-> IdleAuthReq]
    /\ jwts = {}
    /\ subs = {}
    /\ subSeq = 0
    /\ subReqs = [r \in ReqIds |-> IdleSubReq]
    /\ thrown = NoError
    /\ response = NoResponse
    /\ kycs = {}
    /\ kycReqs = [r \in ReqIds |-> IdleKycReq]
    /\ botReqs = [r \in ReqIds |-> IdleBotReq]
    /\ signals = {}
    /\ signalSeq = 0
    /\ signalReqs = [r \in ReqIds |-> IdleSignalReq]

\* No group and no bot is stored.
NoBots ==
    /\ groups = {}
    /\ groupSeq = 0
    /\ bots = {}
    /\ botSeq = 0

InitOTP ==
    /\ now = 0
    /\ users = InitUsers
    /\ EmptyStores
    /\ NoBots

Tick ==
    /\ now + TickStep <= MaxTime
    /\ now' = now + TickStep
    /\ UNCHANGED <<users, otps, otpSeq, otpReqs, issued, consumed>>

TTLDelete ==
    /\ \E o \in otps :
        /\ TTLExpired(o, now)
        /\ otps' = otps \ {o}
    /\ UNCHANGED <<now, users, otpSeq, otpReqs, issued, consumed>>

\* ------------------------------------------- POST /api/auth/send-email-otp
\* (mutant) the record is left in place
DeleteOne_Keep(id) == otps

\* OTP.deleteOne({ _id })
DeleteOne(id) == {o \in otps : o.id # id}

\* validation and User.findOne({ email })
sendEmailOTP_FindUser(r, email) ==
    /\ Free(r)
    /\ LET q == [IdleReq EXCEPT !.op = "sendEmailOTP", !.email = email] IN
       otpReqs' = [otpReqs EXCEPT ![r] =
          IF email = "" THEN Fail(q, 400, "missing-email")
          ELSE IF UsersWithEmail(email) = {} THEN Fail(q, 404, "user-not-found")
          ELSE IF \E u \in UsersWithEmail(email) : users[u].isEmailVerified
               THEN Fail(q, 400, "email-already-verified")
          ELSE [q EXCEPT !.pc = "cooldown"]]
    /\ UNCHANGED <<now, users, otps, otpSeq, issued, consumed>>

sendEmailOTP_Cooldown(r) ==
    /\ otpReqs[r].op = "sendEmailOTP" /\ otpReqs[r].pc = "cooldown"
    /\ otpReqs' = [otpReqs EXCEPT ![r] =
          IF checkOTPCooldown(otpReqs[r].email, "email", now)
          THEN Fail(@, 429, "otp-cooldown")
          ELSE [@ EXCEPT !.pc = "create"]]
    /\ UNCHANGED <<now, users, otps, otpSeq, issued, consumed>>

\* createOTP(email, "email"): generateOTP draws the code at random
sendEmailOTP_Create(r) ==
    /\ otpReqs[r].op = "sendEmailOTP" /\ otpReqs[r].pc = "create"
    /\ otpSeq < MaxOtps
    /\ \E code \in Codes :
        LET o == OtpData(otpSeq + 1, otpReqs[r].email, "email", code,
                         DefaultExpiryMinutes, now) IN
        /\ otps' = otps \cup {o}
        /\ issued' = issued \cup {o}
        /\ otpReqs' = [otpReqs EXCEPT ![r] = [@ EXCEPT !.pc = "send"]]
    /\ otpSeq' = otpSeq + 1
    /\ UNCHANGED <<now, users, consumed>>

\* sendVerificationEmail: the mail goes out, or the transport throws
sendEmailOTP_Send(r) ==
    /\ otpReqs[r].op = "sendEmailOTP" /\ otpReqs[r].pc = "send"
    /\ \/ otpReqs' = [otpReqs EXCEPT ![r] = Respond(@, 200, "")]
       \/ otpReqs' = [otpReqs EXCEPT ![r] = Fail(@, 500, "")]
    /\ UNCHANGED <<now, users, otps, otpSeq, issued, consumed>>

\* ---------------------------------------------------------------- verifyOTP
\* OTP.findOne(...): no record, or one of the matching records
verifyOTP_Find(r, op, user, emailOrPhone, code, type) ==
    /\ Free(r)
    /\ LET asked == {o \in issued : /\ o.otp = code /\ o.type = type
                                     /\ OtpSubject(o) = emailOrPhone}
           q == [IdleReq EXCEPT
                   !.op = op, !.user = user, !.otp = code,
                   !.email = IF type = "email" THEN emailOrPhone ELSE "",
                   !.phone = IF type = "email" THEN "" ELSE emailOrPhone,
                   !.askedExpired = \E o \in asked : o.id \notin consumed /\ o.expiresAt <= now,
                   !.askedConsumed = \E o \in asked : o.id \in consumed]
           found == VerifyOTPQuery(emailOrPhone, code, type, now) IN
       IF found = {}
       THEN otpReqs' = [otpReqs EXCEPT ![r] =
                IF op = "verifyOTP" THEN Return(q, "false")
                ELSE Fail(q, 400, IF type = "email" THEN "invalid-otp" ELSE "")]
       ELSE \E o \in found :
                otpReqs' = [otpReqs EXCEPT ![r] = [q EXCEPT !.pc = "delete", !.rec = o]]
    /\ UNCHANGED <<now, users, otps, otpSeq, issued, consumed>>

\* OTP.deleteOne({ _id: otpRecord._id }); return true
verifyOTP_Delete(r) ==
    /\ otpReqs[r].pc = "delete"
    /\ otps' = DeleteOne(otpReqs[r].rec.id)
    /\ consumed' = consumed \cup {otpReqs[r].rec.id}
    /\ otpReqs' = [otpReqs EXCEPT ![r] =
          IF @.op = "verifyOTP" THEN Return(@, "true") ELSE [@ EXCEPT !.pc = "update"]]
    /\ UNCHANGED <<now, users, otpSeq, issued>>

\* ------------------------------------------- POST /api/auth/verify-email-otp
verifyEmailOTP_Find(r, email, code) ==
    verifyOTP_Find(r, "verifyEmailOTP", 0, email, code, "email")

\* User.findOneAndUpdate({ email }, { isEmailVerified: true })
verifyEmailOTP_Update(r) ==
    /\ otpReqs[r].op = "verifyEmailOTP" /\ otpReqs[r].pc = "update"
    /\ users' = [u \in UserIds |->
                    IF users[u].email = otpReqs[r].email
                    THEN [users[u] EXCEPT !.isEmailVerified = TRUE]
                    ELSE users[u]]
    /\ otpReqs' = [otpReqs EXCEPT ![r] = Respond(@, 200, "")]
    /\ UNCHANGED <<now, otps, otpSeq, issued, consumed>>

\* ------------------------------------------------- POST /api/profile/phone
\* validation and User.findById(req.user.id)
updatePhoneAndSendOTP_FindUser(r, user, phoneNumber) ==
    /\ Free(r)
    /\ user \in UserIds
    /\ LET q == [IdleReq EXCEPT !.op = "updatePhone", !.user = user,
                                !.phone = phoneNumber] IN
       otpReqs' = [otpReqs EXCEPT ![r] =
          IF phoneNumber = "" THEN Fail(q, 400, "")
          ELSE [q EXCEPT !.pc = "cooldown",
                         !.docPhone = users[user].phoneNumber,
                         !.docVerified = users[user].isPhoneVerified]]
    /\ UNCHANGED <<now, users, otps, otpSeq, issued, consumed>>

\* checkOTPCooldown, then the comparison with the loaded document
updatePhoneAndSendOTP_Cooldown(r) ==
    /\ otpReqs[r].op = "updatePhone" /\ otpReqs[r].pc = "cooldown"
    /\ otpReqs' = [otpReqs EXCEPT ![r] =
          IF checkOTPCooldown(otpReqs[r].phone, "phone", now)
          THEN Fail(@, 429, "")
          ELSE IF otpReqs[r].docPhone # otpReqs[r].phone
          THEN [@ EXCEPT !.pc = "save"]
          ELSE Fail(@, 400, "")]
    /\ UNCHANGED <<now, users, otps, otpSeq, issued, consumed>>

\* user.save(): writes the modified paths; the unique index on phoneNumber
\* rejects a number another user holds
updatePhoneAndSendOTP_Save(r) ==
    /\ otpReqs[r].op = "updatePhone" /\ otpReqs[r].pc = "save"
    /\ LET u == otpReqs[r].user
           d == [users[u] EXCEPT
                   !.phoneNumber = otpReqs[r].phone,
                   !.isPhoneVerified = IF otpReqs[r].docVerified THEN FALSE ELSE @] IN
       IF UserIndexConflict(u, d)
       THEN /\ otpReqs' = [otpReqs EXCEPT ![r] = Fail(@, 500, "")]
            /\ users' = users
       ELSE /\ otpReqs' = [otpReqs EXCEPT ![r] = [@ EXCEPT !.pc = "create"]]
            /\ users' = [users EXCEPT ![u] = d]
    /\ UNCHANGED <<now, otps, otpSeq, issued, consumed>>

\* createOTP(phoneNumber, "phone"); the response carries the code
updatePhoneAndSendOTP_Create(r) ==
    /\ otpReqs[r].op = "updatePhone" /\ otpReqs[r].pc = "create"
    /\ otpSeq < MaxOtps
    /\ \E code \in Codes :
        LET o == OtpData(otpSeq + 1, otpReqs[r].phone, "phone", code,
                         DefaultExpiryMinutes, now) IN
        /\ otps' = otps \cup {o}
        /\ issued' = issued \cup {o}
        /\ otpReqs' = [otpReqs EXCEPT ![r] = Respond(@, 200, "")]
    /\ otpSeq' = otpSeq + 1
    /\ UNCHANGED <<now, users, consumed>>

\* ------------------------------------------ POST /api/profile/verify-phone
verifyPhoneOTP_Find(r, user, phoneNumber, code) ==
    /\ user \in UserIds
    /\ verifyOTP_Find(r, "verifyPhoneOTP", user, phoneNumber, code, "phone")

\* User.findOneAndUpdate({ _id: userId, phoneNumber }, { isPhoneVerified: true })
verifyPhoneOTP_Update(r) ==
    /\ otpReqs[r].op = "verifyPhoneOTP" /\ otpReqs[r].pc = "update"
    /\ LET u == otpReqs[r].user IN
       users' = IF users[u].phoneNumber = otpReqs[r].phone
                THEN [users EXCEPT ![u].isPhoneVerified = TRUE]
                ELSE users
    /\ otpReqs' = [otpReqs EXCEPT ![r] = Respond(@, 200, "")]
    /\ UNCHANGED <<now, otps, otpSeq, issued, consumed>>

\* ------------------------------------------------------- PUT /api/profile
\* validation of the body (fullName, email, phoneNumber)
updateProfile_Validate(r, user, fullName, email, phoneNumber) ==
    /\ Free(r)
    /\ user \in UserIds
    /\ LET q == [IdleReq EXCEPT !.op = "updateProfile", !.user = user,
                                !.email = email, !.phone = phoneNumber] IN
       otpReqs' = [otpReqs EXCEPT ![r] =
          IF fullName = "" /\ email = "" /\ phoneNumber = ""
          THEN Fail(q, 400, "no-update-fields")
          ELSE IF email # "" THEN [q EXCEPT !.pc = "checkEmail"]
          ELSE IF phoneNumber # "" THEN [q EXCEPT !.pc = "checkPhone"]
          ELSE [q EXCEPT !.pc = "update"]]
    /\ UNCHANGED <<now, users, otps, otpSeq, issued, consumed>>

\* User.findOne({ email, _id: { $ne: req.user._id } })
updateProfile_CheckEmail(r) ==
    /\ otpReqs[r].op = "updateProfile" /\ otpReqs[r].pc = "checkEmail"
    /\ otpReqs' = [otpReqs EXCEPT ![r] =
          IF UsersWithEmail(otpReqs[r].email) \ {otpReqs[r].user} # {}
          THEN Fail(@, 409, "email-already-exists")
          ELSE IF otpReqs[r].phone # "" THEN [@ EXCEPT !.pc = "checkPhone"]
          ELSE [@ EXCEPT !.pc = "update"]]
    /\ UNCHANGED <<now, users, otps, otpSeq, issued, consumed>>

\* User.findOne({ phoneNumber, _id: { $ne: req.user._id } })
updateProfile_CheckPhone(r) ==
    /\ otpReqs[r].op = "updateProfile" /\ otpReqs[r].pc = "checkPhone"
    /\ otpReqs' = [otpReqs EXCEPT ![r] =
          IF UsersWithPhone(otpReqs[r].phone) \ {otpReqs[r].user} # {}
          THEN Fail(@, 409, "phone-already-exists")
          ELSE [@ EXCEPT !.pc = "update"]]
    /\ UNCHANGED <<now, users, otps, otpSeq, issued, consumed>>

\* (mutant) the profile update, were it to leave the verification flags alone
updateProfile_Update_KeepFlags(r) ==
    /\ otpReqs[r].op = "updateProfile" /\ otpReqs[r].pc = "update"
    /\ LET u == otpReqs[r].user
           e == otpReqs[r].email
           p == otpReqs[r].phone
           d == [users[u] EXCEPT
                   !.email = IF e # "" THEN e ELSE @,
                   !.phoneNumber = IF p # "" THEN p ELSE @] IN
       IF UserIndexConflict(u, d)
       THEN /\ otpReqs' = [otpReqs EXCEPT ![r] = Fail(@, 500, "")]
            /\ users' = users
       ELSE /\ otpReqs' = [otpReqs EXCEPT ![r] = Respond(@, 200, "")]
            /\ users' = [users EXCEPT ![u] = d]
    /\ UNCHANGED <<now, otps, otpSeq, issued, consumed>>

\* User.findByIdAndUpdate(req.user._id, { $set: updateData })
updateProfile_Update(r) ==
    /\ otpReqs[r].op = "updateProfile" /\ otpReqs[r].pc = "update"
    /\ LET u == otpReqs[r].user
           e == otpReqs[r].email
           p == otpReqs[r].phone
           d == [users[u] EXCEPT
                   !.email = IF e # "" THEN e ELSE @,
                   !.isEmailVerified = IF e # "" THEN FALSE ELSE @,
                   !.phoneNumber = IF p # "" THEN p ELSE @,
                   !.isPhoneVerified = IF p # "" THEN FALSE ELSE @] IN
       IF UserIndexConflict(u, d)
       THEN /\ otpReqs' = [otpReqs EXCEPT ![r] = Fail(@, 500, "")]
            /\ users' = users
       ELSE /\ otpReqs' = [otpReqs EXCEPT ![r] = Respond(@, 200, "")]
            /\ users' = [users EXCEPT ![u] = d]
    /\ UNCHANGED <<now, otps, otpSeq, issued, consumed>>

\* The email endpoints: send-email-otp, verify-email-otp, and the profile
\* update changing the email address.
NextEmailOTP ==
    /\ UNCHANGED <<resetVars, authVars, subVars, errVars, kycVars, botVars, signalVars>>
    /\ \/ \E r \in ReqIds : Deliver(r)
       \/ /\ Quiet
          /\ \/ Tick
             \/ TTLDelete
             \/ \E r \in ReqIds :
                 \/ \E email \in Emails \cup {""} : sendEmailOTP_FindUser(r, email)
                 \/ sendEmailOTP_Cooldown(r)
                 \/ sendEmailOTP_Create(r)
                 \/ sendEmailOTP_Send(r)
                 \/ \E email \in Emails, code \in Codes : verifyEmailOTP_Find(r, email, code)
                 \/ verifyOTP_Delete(r)
                 \/ verifyEmailOTP_Update(r)
                 \/ \E u \in UserIds, n \in {"", "Ann"}, e \in Emails \cup {""} :
                       updateProfile_Validate(r, u, n, e, "")
                 \/ updateProfile_CheckEmail(r)
                 \/ updateProfile_Update(r)

SpecEmailOTP == InitOTP /\ [][NextEmailOTP]_vars

\* The email endpoints for requests that pass validation, when generateOTP
\* draws the same code every time: the case in which the codes of different
\* addresses and requests collide.
NextEmailVerify ==
    /\ UNCHANGED <<resetVars, authVars, subVars, errVars, kycVars, botVars, signalVars>>
    /\ \/ \E r \in ReqIds : Deliver(r)
       \/ /\ Quiet
          /\ \/ Tick
             \/ TTLDelete
             \/ \E r \in ReqIds :
                 \/ \E email \in Emails : sendEmailOTP_FindUser(r, email)
                 \/ sendEmailOTP_Cooldown(r)
                 \/ sendEmailOTP_Create(r)
                 \/ sendEmailOTP_Send(r)
                 \/ \E email \in Emails : verifyEmailOTP_Find(r, email, "111111")
                 \/ verifyOTP_Delete(r)
                 \/ verifyEmailOTP_Update(r)
                 \/ \E u \in UserIds, e \in Emails : updateProfile_Validate(r, u, "", e, "")
                 \/ updateProfile_CheckEmail(r)
                 \/ updateProfile_Update(r)
    /\ \A o \in otps' : o.otp = "111111"

SpecEmailVerify == InitOTP /\ [][NextEmailVerify]_vars

\* The phone endpoints: profile/phone, profile/verify-phone, and the profile
\* update changing the phone number.
NextPhoneOTP ==
    /\ UNCHANGED <<resetVars, authVars, subVars, errVars, kycVars, botVars, signalVars>>
    /\ \/ \E r \in ReqIds : Deliver(r)
       \/ /\ Quiet
          /\ \/ Tick
             \/ TTLDelete
             \/ \E r \in ReqIds :
                 \/ \E u \in UserIds, p \in Phones \cup {""} : updatePhoneAndSendOTP_FindUser(r, u, p)
                 \/ updatePhoneAndSendOTP_Cooldown(r)
                 \/ updatePhoneAndSendOTP_Save(r)
                 \/ updatePhoneAndSendOTP_Create(r)
                 \/ \E u \in UserIds, p \in Phones, code \in Codes : verifyPhoneOTP_Find(r, u, p, code)
                 \/ verifyOTP_Delete(r)
                 \/ verifyPhoneOTP_Update(r)
                 \/ \E u \in UserIds, n \in {"", "Ann"}, p \in Phones \cup {""} :
                       updateProfile_Validate(r, u, n, "", p)
                 \/ updateProfile_CheckPhone(r)
                 \/ updateProfile_Update(r)

SpecPhoneOTP == InitOTP /\ [][NextPhoneOTP]_vars

\* createOTP, were a new OTP to replace the subject's earlier ones
createOTP_Invalidate(emailOrPhone, type) ==
    /\ otpSeq < MaxOtps
    /\ \E code \in Codes :
        LET o == OtpData(otpSeq + 1, emailOrPhone, type, code, DefaultExpiryMinutes, now) IN
        /\ otps' = {x \in otps : x.type # type \/ OtpSubject(x) # emailOrPhone} \cup {o}
        /\ issued' = issued \cup {o}
    /\ otpSeq' = otpSeq + 1
    /\ UNCHANGED <<now, users, otpReqs, consumed>>

\* ------------------------------------------------- the OTP utilities alone
\* createOTP as any caller may call it: for any subject and type, at any time.
createOTP(emailOrPhone, type) ==
    /\ otpSeq < MaxOtps
    /\ \E code \in Codes :
        LET o == OtpData(otpSeq + 1, emailOrPhone, type, code, DefaultExpiryMinutes, now) IN
        /\ otps' = otps \cup {o}
        /\ issued' = issued \cup {o}
    /\ otpSeq' = otpSeq + 1
    /\ UNCHANGED <<now, users, otpReqs, consumed>>

\* verifyOTP as any caller may call it
verifyOTP(r, emailOrPhone, code, type) ==
    verifyOTP_Find(r, "verifyOTP", 0, emailOrPhone, code, type)

NextUtils ==
    /\ UNCHANGED <<resetVars, authVars, subVars, errVars, kycVars, botVars, signalVars>>
    /\ \/ \E r \in ReqIds : Deliver(r)
       \/ /\ Quiet
          /\ \/ Tick
             \/ TTLDelete
             \/ createOTP("a@x.io", "email")
             \/ createOTP("+911", "phone")
             \/ \E r \in ReqIds :
                 \/ \E email \in Emails, code \in Codes : verifyOTP(r, email, code, "email")
                 \/ \E p \in Phones, code \in Codes : verifyOTP(r, p, code, "phone")
                 \/ verifyOTP_Delete(r)

SpecUtils == InitOTP /\ [][NextUtils]_vars

\* ========================================================= password reset
\* crypto.createHash("sha256").update(token).digest("hex")
Sha256(token) == [alg |-> "sha256", of |-> token]

\* The lifetime forgotPassword gives a token: Date.now() + 30 * 60 * 1000 ms
ResetExpires(t) == t + 30 * 60

\* (mutant) the expiry compared with $gte
ResetTokenQuery_Gte(token, t) ==
    {u \in UserIds : /\ users[u].resetPasswordToken = Sha256(token)
                     /\ users[u].resetPasswordExpires >= t}

\* User.findOne({ resetPasswordToken: hashedToken,
\*                resetPasswordExpires: { $gt: Date.now() } })
ResetTokenQuery(token, t) ==
    {u \in UserIds : /\ users[u].resetPasswordToken = Sha256(token)
                     /\ users[u].resetPasswordExpires > t}

\* (mutant) the reset fields are left set
ResetSave_KeepToken(doc, newPassword) ==
    [doc EXCEPT !.password = BcryptHash(newPassword)]

\* resetPassword's user.save(): the modified paths password (hashed by the
\* pre-save hook), resetPasswordToken and resetPasswordExpires
ResetSave(doc, newPassword) ==
    [doc EXCEPT !.password = BcryptHash(newPassword),
                !.resetPasswordToken = NoToken,
                !.resetPasswordExpires = NoDate]

ResetQuiet == \A r \in ReqIds : resetReqs[r].pc # "done"

ResetFree(r) ==
    /\ resetReqs[r].pc = "idle"
    /\ r = 2 => resetReqs[1].pc # "idle"

ResetRespond(q, status, code) ==
    [IdleResetReq EXCEPT !.op = q.op, !.pc = "done", !.token = q.token,
                         !.newPassword = q.newPassword,
                         !.confirmPassword = q.confirmPassword,
                         !.status = status, !.code = code]

ResetDeliver(r) ==
    /\ resetReqs[r].pc = "done"
    /\ resetReqs' = [resetReqs EXCEPT ![r] = IdleResetReq]
    /\ UNCHANGED <<now, users, tokenSeq, issuedAt, spent>>

ResetTick ==
    /\ now + ResetTickStep <= ResetMaxTime
    /\ now' = now + ResetTickStep
    /\ UNCHANGED <<users, resetVars>>

\* ---------------------------------------------- POST /api/auth/forgot-password
\* validation, User.findOne({ email }), and the token drawn by crypto.randomBytes
forgotPassword_Find(r, email) ==
    /\ ResetFree(r)
    /\ LET q == [IdleResetReq EXCEPT !.op = "forgotPassword", !.email = email] IN
       IF email = ""
       THEN /\ resetReqs' = [resetReqs EXCEPT ![r] = ResetRespond(q, 400, "missing-email")]
            /\ UNCHANGED <<tokenSeq, issuedAt>>
       ELSE IF UsersWithEmail(email) = {}
       THEN /\ resetReqs' = [resetReqs EXCEPT ![r] = ResetRespond(q, 200, "")]
            /\ UNCHANGED <<tokenSeq, issuedAt>>
       ELSE /\ tokenSeq < MaxTokens
            /\ \E u \in UsersWithEmail(email) :
                 resetReqs' = [resetReqs EXCEPT ![r] =
                    [q EXCEPT !.pc = "save", !.user = u, !.token = tokenSeq + 1,
                              !.expires = ResetExpires(now)]]
            /\ tokenSeq' = tokenSeq + 1
            /\ issuedAt' = Append(issuedAt, now)
    /\ UNCHANGED <<now, users, spent>>

\* user.save(): the modified paths resetPasswordToken and resetPasswordExpires
forgotPassword_Save(r) ==
    /\ resetReqs[r].op = "forgotPassword" /\ resetReqs[r].pc = "save"
    /\ users' = [users EXCEPT ![resetReqs[r].user] =
                    [@ EXCEPT !.resetPasswordToken = Sha256(resetReqs[r].token),
                              !.resetPasswordExpires = resetReqs[r].expires]]
    /\ resetReqs' = [resetReqs EXCEPT ![r] = [@ EXCEPT !.pc = "send"]]
    /\ UNCHANGED <<now, tokenSeq, issuedAt, spent>>

\* sendVerificationEmail(email, resetUrl, "password-reset"): sent, or it throws
forgotPassword_Send(r) ==
    /\ resetReqs[r].op = "forgotPassword" /\ resetReqs[r].pc = "send"
    /\ \/ resetReqs' = [resetReqs EXCEPT ![r] = ResetRespond(@, 200, "")]
       \/ resetReqs' = [resetReqs EXCEPT ![r] = ResetRespond(@, 500, "")]
    /\ UNCHANGED <<now, users, tokenSeq, issuedAt, spent>>

\* ----------------------------------------------- POST /api/auth/reset-password
\* validation and the lookup by token hash; token -1 stands for no token
resetPassword_Find(r, token, newPassword, confirmPassword) ==
    /\ ResetFree(r)
    /\ LET q == [IdleResetReq EXCEPT !.op = "resetPassword", !.token = token,
                                     !.newPassword = newPassword,
                                     !.confirmPassword = confirmPassword]
           found == ResetTokenQuery(token, now) IN
       IF token = -1 \/ newPassword = "" \/ confirmPassword = ""
       THEN resetReqs' = [resetReqs EXCEPT ![r] = ResetRespond(q, 400, "missing-reset-fields")]
       ELSE IF newPassword # confirmPassword
       THEN resetReqs' = [resetReqs EXCEPT ![r] = ResetRespond(q, 400, "passwords-dont-match")]
       ELSE IF Len(newPassword) < 8
       THEN resetReqs' = [resetReqs EXCEPT ![r] = ResetRespond(q, 400, "password-too-short")]
       ELSE IF found = {}
       THEN resetReqs' = [resetReqs EXCEPT ![r] = ResetRespond(q, 400, "invalid-reset-token")]
       ELSE \E u \in found :
               resetReqs' = [resetReqs EXCEPT ![r] = [q EXCEPT !.pc = "save", !.user = u]]
    /\ UNCHANGED <<now, users, tokenSeq, issuedAt, spent>>

resetPassword_Save(r) ==
    /\ resetReqs[r].op = "resetPassword" /\ resetReqs[r].pc = "save"
    /\ users' = [users EXCEPT ![resetReqs[r].user] = ResetSave(@, resetReqs[r].newPassword)]
    /\ spent' = spent \cup {resetReqs[r].token}
    /\ resetReqs' = [resetReqs EXCEPT ![r] = ResetRespond(@, 200, "")]
    /\ UNCHANGED <<now, tokenSeq, issuedAt>>

\* ---------------------------------------- POST /api/auth/validate-reset-token
validateResetToken(r, token) ==
    /\ ResetFree(r)
    /\ LET q == [IdleResetReq EXCEPT !.op = "validateResetToken", !.token = token] IN
       resetReqs' = [resetReqs EXCEPT ![r] =
          IF token = -1 THEN ResetRespond(q, 400, "missing-token")
          ELSE IF ResetTokenQuery(token, now) = {}
          THEN ResetRespond(q, 400, "invalid-reset-token")
          ELSE ResetRespond(q, 200, "")]
    /\ UNCHANGED <<now, users, tokenSeq, issuedAt, spent>>

\* One account with a password; tokens a request may carry: none (-1), one
\* never issued (0), or any issued so far.
InitReset ==
    /\ now = 0
    /\ users = [u \in {1} |-> NewUser("a@x.io", "oldpassword", Undef, TRUE)]
    /\ EmptyStores
    /\ NoBots

Passwords == {"", "short", "password1", "password2"}

NextReset ==
    /\ UNCHANGED <<otpVars, authVars, subVars, errVars, kycVars, botVars, signalVars>>
    /\ \/ \E r \in ReqIds : ResetDeliver(r)
       \/ /\ ResetQuiet
          /\ \/ ResetTick
             \/ \E r \in ReqIds :
                 \/ \E email \in Emails \cup {""} : forgotPassword_Find(r, email)
                 \/ forgotPassword_Save(r)
                 \/ forgotPassword_Send(r)
                 \/ \E token \in -1..tokenSeq, pw \in Passwords, cpw \in Passwords :
                       resetPassword_Find(r, token, pw, cpw)
                 \/ resetPassword_Save(r)
                 \/ \E token \in -1..tokenSeq : validateResetToken(r, token)

SpecReset == InitReset /\ [][NextReset]_vars

\* ============================================ signup, login, Google, auth
\* The schema's lowercase setter on email (String.prototype.toLowerCase on the
\* addresses requests carry here); Mongoose applies it to stored values and to
\* query conditions alike.
Lower(e) == CASE e = "A@x.io" -> "a@x.io"
              [] e = "B@x.io" -> "b@x.io"
              [] OTHER -> e

AuthEmails == {"", "a@x.io", "A@x.io", "b@x.io"}
AuthPasswords == {"", "short", "password1", "password2"}

\* What googleClient.verifyIdToken makes of the idToken: a Google profile
\* (email, sub), nothing ("": no idToken sent), or a rejection ("invalid").
GoogleProfiles == {[email |-> "a@x.io", sub |-> "g1"], [email |-> "b@x.io", sub |-> "g2"]}
NoIdToken == [email |-> "", sub |-> ""]
InvalidIdToken == [email |-> "", sub |-> "invalid"]

\* JWT_EXPIRES_IN = "7d"
JwtExpiresIn == 7 * 24 * 60 * 60

\* jwt.sign({ id: user._id }, secret, { expiresIn: JWT_EXPIRES_IN })
SignJwt(u, t) ==
    [payload |-> [claim |-> "id", value |-> u], exp |-> t + JwtExpiresIn, sig |-> "ok"]

\* a Bearer string that is no token of this server
BadJwt == [payload |-> [claim |-> "", value |-> 0], exp |-> 0, sig |-> "bad"]

\* jwt.verify: the signature is this server's and the token has not expired
JwtVerify(token, t) == token.sig = "ok" /\ t < token.exp

\* Reading a property of the decoded payload: undefined (no _id) when absent
Field(payload, name) == IF payload.claim = name THEN payload.value ELSE UndefId

\* The auth middleware's decoded.userId
DecodedUserId(payload) == Field(payload, "userId")

\* (mutant) login without the email-verification check
LoginCheck_NoVerified(doc, password) ==
    IF doc.googleId # Undef /\ doc.password = NoPassword
    THEN [status |-> 401, code |-> "google-auth-required"]
    ELSE IF ~comparePassword(doc.password, password)
    THEN [status |-> 401, code |-> "invalid-credentials"]
    ELSE [status |-> 200, code |-> ""]

\* login's checks on the user document it loaded
LoginCheck(doc, password) ==
    IF doc.googleId # Undef /\ doc.password = NoPassword
    THEN [status |-> 401, code |-> "google-auth-required"]
    ELSE IF ~comparePassword(doc.password, password)
    THEN [status |-> 401, code |-> "invalid-credentials"]
    ELSE IF ~doc.isEmailVerified
    THEN [status |-> 403, code |-> "email-not-verified"]
    ELSE [status |-> 200, code |-> ""]

AuthQuiet == \A r \in ReqIds : authReqs[r].pc # "done"

AuthFree(r) ==
    /\ authReqs[r].pc = "idle"
    /\ r = 2 => authReqs[1].pc # "idle"

AuthRespond(q, status, code) ==
    [IdleAuthReq EXCEPT !.op = q.op, !.pc = "done", !.email = q.email,
                        !.password = q.password, !.bearer = q.bearer,
                        !.status = status, !.code = code]

AuthDeliver(r) ==
    /\ authReqs[r].pc = "done"
    /\ authReqs' = [authReqs EXCEPT ![r] = IdleAuthReq]
    /\ UNCHANGED <<now, users, jwts>>

AuthTick ==
    /\ now + AuthTickStep <= AuthMaxTime
    /\ now' = now + AuthTickStep
    /\ UNCHANGED <<users, authVars>>

\* User.create / save: the collection with document d under _id u
Stored(u, d) == [v \in UserIds \cup {u} |-> IF v = u THEN d ELSE users[v]]

\* The response carrying a freshly signed token for user u
Authenticated(r, q, u) ==
    /\ SignJwt(u, now) \in {j.token : j \in jwts} \/ Cardinality(jwts) < MaxJwts
    /\ authReqs' = [authReqs EXCEPT ![r] =
            [AuthRespond(q, 200, "") EXCEPT !.token = SignJwt(u, now)]]
    /\ jwts' = jwts \cup {[token |-> SignJwt(u, now), user |-> u]}

\* ------------------------------------------------------ POST /api/auth/signup
signup_Find(r, fullName, email, password) ==
    /\ AuthFree(r)
    /\ LET q == [IdleAuthReq EXCEPT !.op = "signup", !.email = email,
                                    !.password = password] IN
       authReqs' = [authReqs EXCEPT ![r] =
          IF fullName = "" \/ email = "" \/ password = ""
          THEN AuthRespond(q, 400, "missing-required-fields")
          ELSE IF UsersWithEmail(Lower(email)) # {}
          THEN AuthRespond(q, 409, "email-already-exists")
          ELSE [q EXCEPT !.pc = "create"]]
    /\ UNCHANGED <<now, users, jwts>>

\* User.create: schema validation (password minlength 8), then the insert
\* under the unique indexes; either failure is not an AppError: 500
signup_Create(r) ==
    /\ authReqs[r].op = "signup" /\ authReqs[r].pc = "create"
    /\ LET q == authReqs[r]
           id == Cardinality(UserIds) + 1
           doc == NewUser(Lower(q.email), q.password, Undef, FALSE) IN
       IF Len(q.password) < 8 \/ UserIndexConflict(id, doc)
       THEN /\ authReqs' = [authReqs EXCEPT ![r] = AuthRespond(q, 500, "")]
            /\ UNCHANGED users
       ELSE /\ Cardinality(UserIds) < MaxUsers
            /\ users' = Stored(id, doc)
            /\ authReqs' = [authReqs EXCEPT ![r] = AuthRespond(q, 201, "")]
    /\ UNCHANGED <<now, jwts>>

\* ------------------------------------------------------- POST /api/auth/login
\* one database read (findOne), then checks on the loaded document
login(r, email, password) ==
    /\ AuthFree(r)
    /\ LET q == [IdleAuthReq EXCEPT !.op = "login", !.email = email,
                                    !.password = password]
           found == UsersWithEmail(Lower(email)) IN
       IF email = "" \/ password = ""
       THEN /\ authReqs' = [authReqs EXCEPT ![r] = AuthRespond(q, 400, "missing-credentials")]
            /\ UNCHANGED jwts
       ELSE IF found = {}
       THEN /\ authReqs' = [authReqs EXCEPT ![r] = AuthRespond(q, 401, "invalid-credentials")]
            /\ UNCHANGED jwts
       ELSE \E u \in found :
              LET c == LoginCheck(users[u], password) IN
              IF c.status # 200
              THEN /\ authReqs' = [authReqs EXCEPT ![r] = AuthRespond(q, c.status, c.code)]
                   /\ UNCHANGED jwts
              ELSE Authenticated(r, q, u)
    /\ UNCHANGED <<now, users>>

\* ------------------------------------------------------ POST /api/auth/google
\* (GOOGLE_CLIENT_ID and GOOGLE_IOS_CLIENT_ID are configured)
googleAuth_Find(r, g) ==
    /\ AuthFree(r)
    /\ LET q == [IdleAuthReq EXCEPT !.op = "googleAuth", !.email = g.email,
                                    !.googleId = g.sub]
           found == UsersWithEmail(Lower(g.email))
                       \cup {u \in UserIds : users[u].googleId = g.sub} IN
       IF g = NoIdToken
       THEN /\ authReqs' = [authReqs EXCEPT ![r] = AuthRespond(q, 400, "missing-id-token")]
            /\ UNCHANGED jwts
       ELSE IF g = InvalidIdToken
       THEN /\ authReqs' = [authReqs EXCEPT ![r] = AuthRespond(q, 401, "invalid-google-token")]
            /\ UNCHANGED jwts
       ELSE IF found = {}
       THEN /\ authReqs' = [authReqs EXCEPT ![r] = [q EXCEPT !.pc = "create"]]
            /\ UNCHANGED jwts
       ELSE \E u \in found :
              IF users[u].googleId # g.sub
              THEN /\ authReqs' = [authReqs EXCEPT ![r] = [q EXCEPT !.pc = "save", !.user = u]]
                   /\ UNCHANGED jwts
              ELSE Authenticated(r, q, u)
    /\ UNCHANGED <<now, users>>

\* user.save() of the modified path googleId (fullName and profilePicture are
\* not modelled), then the token
googleAuth_Save(r) ==
    /\ authReqs[r].op = "googleAuth" /\ authReqs[r].pc = "save"
    /\ LET q == authReqs[r]
           doc == [users[q.user] EXCEPT !.googleId = q.googleId] IN
       IF UserIndexConflict(q.user, doc)
       THEN /\ authReqs' = [authReqs EXCEPT ![r] = AuthRespond(q, 500, "")]
            /\ UNCHANGED <<users, jwts>>
       ELSE /\ users' = Stored(q.user, doc)
            /\ Authenticated(r, q, q.user)
    /\ UNCHANGED now

\* User.create({ email, fullName, googleId, isEmailVerified: true }), then the token
googleAuth_Create(r) ==
    /\ authReqs[r].op = "googleAuth" /\ authReqs[r].pc = "create"
    /\ LET q == authReqs[r]
           id == Cardinality(UserIds) + 1
           doc == NewUser(Lower(q.email), "", q.googleId, TRUE) IN
       IF UserIndexConflict(id, doc)
       THEN /\ authReqs' = [authReqs EXCEPT ![r] = AuthRespond(q, 500, "")]
            /\ UNCHANGED <<users, jwts>>
       ELSE /\ Cardinality(UserIds) < MaxUsers
            /\ users' = Stored(id, doc)
            /\ Authenticated(r, q, id)
    /\ UNCHANGED now

\* ------------------------------------- the auth middleware of protected routes
auth(r, bearer) ==
    /\ AuthFree(r)
    /\ LET q == [IdleAuthReq EXCEPT !.op = "auth", !.bearer = bearer]
           id == DecodedUserId(bearer.payload) IN
       authReqs' = [authReqs EXCEPT ![r] =
          IF bearer = NoJwt \/ ~JwtVerify(bearer, now) \/ id \notin UserIds
          THEN AuthRespond(q, 401, "")
          ELSE [AuthRespond(q, 0, "next") EXCEPT !.reqUser = id]]
    /\ UNCHANGED <<now, users, jwts>>

\* The store is empty, or holds one verified account with a password.
InitAuth ==
    /\ now = 0
    /\ users \in {<<>>, [u \in {1} |-> NewUser("a@x.io", "password1", Undef, TRUE)]}
    /\ EmptyStores
    /\ NoBots

NextAuth ==
    /\ UNCHANGED <<otpVars, resetVars, subVars, errVars, kycVars, botVars, signalVars>>
    /\ \/ \E r \in ReqIds : AuthDeliver(r)
       \/ /\ AuthQuiet
          /\ \/ AuthTick
             \/ \E r \in ReqIds :
                 \/ \E fullName \in {"", "Ann"}, email \in AuthEmails, pw \in AuthPasswords :
                       signup_Find(r, fullName, email, pw)
                 \/ signup_Create(r)
                 \/ \E email \in AuthEmails, pw \in AuthPasswords : login(r, email, pw)
                 \/ \E g \in GoogleProfiles \cup {NoIdToken, InvalidIdToken} :
                       googleAuth_Find(r, g)
                 \/ googleAuth_Save(r)
                 \/ googleAuth_Create(r)
                 \/ \E bearer \in {NoJwt, BadJwt} \cup {j.token : j \in jwts} :
                       auth(r, bearer)

SpecAuth == InitAuth /\ [][NextAuth]_vars

\* ======================================================== bot subscriptions
\* The routes run behind the auth middleware; req.user is the user it attached.
SubUsers == {1, 2}
\* The Bot collection (not written by these routes): bot 1 exists, bot 2 does
\* not; 0 stands for a request without botId.
Bots == {1}
BotIds == {0, 1, 2}

\* BotSubscription.create({ userId, botId }) with the schema defaults and timestamps
NewSubscription(id, userId, botId, t) ==
    [id |-> id, userId |-> userId, botId |-> botId, status |-> "active",
     subscribedAt |-> t, cancelledAt |-> NoDate, createdAt |-> t, updatedAt |-> t]

SubsOf(userId, botId) == {s \in subs : s.userId = userId /\ s.botId = botId}
SubById(id) == {s \in subs : s.id = id}

\* (mutant) no unique index on { userId, botId }
SubIndexConflict_None(d) == FALSE

\* The unique index { userId: 1, botId: 1 }: would inserting d violate it?
SubIndexConflict(d) == SubsOf(d.userId, d.botId) # {}

\* (mutant) an active subscription is reactivated like a cancelled one
ExistingBranch_Reactivate(existing) == "reactivate"

\* POST /: what the handler does with the subscription it found
ExistingBranch(existing) ==
    IF existing.status = "active" THEN "already-subscribed"
    ELSE IF existing.status = "cancelled" THEN "reactivate"
    ELSE "create"

\* (mutant) the reactivating update without the $unset
Reactivated_KeepDate(s, t) ==
    [s EXCEPT !.status = "active", !.updatedAt = t]

\* findByIdAndUpdate(_id, { status: "active", $unset: { cancelledAt: 1 } })
Reactivated(s, t) ==
    [s EXCEPT !.status = "active", !.cancelledAt = NoDate, !.updatedAt = t]

\* findByIdAndUpdate(id, { status: "cancelled", cancelledAt: new Date() })
Cancelled(s, t) ==
    [s EXCEPT !.status = "cancelled", !.cancelledAt = t, !.updatedAt = t]

\* (mutant) the lookup by _id alone
OwnedBy_AnyUser(userId, id) == SubById(id)

\* BotSubscription.findOne({ _id: id, userId: req.user._id })
OwnedBy(userId, id) == {s \in SubById(id) : s.userId = userId}

SubQuiet == \A r \in ReqIds : subReqs[r].pc # "done"

SubFree(r) ==
    /\ subReqs[r].pc = "idle"
    /\ r = 2 => subReqs[1].pc # "idle"

SubRespond(q, status, code) ==
    [IdleSubReq EXCEPT !.op = q.op, !.pc = "done", !.user = q.user, !.bot = q.bot,
                       !.sub = q.sub, !.status = status, !.code = code]

SubDeliver(r) ==
    /\ subReqs[r].pc = "done"
    /\ subReqs' = [subReqs EXCEPT ![r] = IdleSubReq]
    /\ UNCHANGED <<now, users, subs, subSeq>>

SubTick ==
    /\ now < SubMaxTime
    /\ now' = now + 1
    /\ UNCHANGED <<users, subVars>>

\* ------------------------------------------------------ POST /api/subscriptions
\* validation, Bot.findById and BotSubscription.findOne({ userId, botId })
subscribe_Find(r, user, botId) ==
    /\ SubFree(r)
    /\ LET q == [IdleSubReq EXCEPT !.op = "subscribe", !.user = user, !.bot = botId]
           found == SubsOf(user, botId) IN
       IF botId = 0
       THEN subReqs' = [subReqs EXCEPT ![r] = SubRespond(q, 400, "missing-bot-id")]
       ELSE IF botId \notin Bots
       THEN subReqs' = [subReqs EXCEPT ![r] = SubRespond(q, 404, "bot-not-found")]
       ELSE IF found = {}
       THEN subReqs' = [subReqs EXCEPT ![r] = [q EXCEPT !.pc = "create"]]
       ELSE \E s \in found :
              subReqs' = [subReqs EXCEPT ![r] =
                 IF ExistingBranch(s) = "already-subscribed"
                 THEN SubRespond(q, 409, "already-subscribed")
                 ELSE IF ExistingBranch(s) = "reactivate"
                 THEN [q EXCEPT !.pc = "reactivate", !.sub = s.id]
                 ELSE [q EXCEPT !.pc = "create"]]
    /\ UNCHANGED <<now, users, subs, subSeq>>

\* the reactivating findByIdAndUpdate; on no document the handler dereferences
\* null and the request ends 500
subscribe_Reactivate(r) ==
    /\ subReqs[r].op = "subscribe" /\ subReqs[r].pc = "reactivate"
    /\ LET q == subReqs[r] IN
       IF SubById(q.sub) = {}
       THEN /\ subReqs' = [subReqs EXCEPT ![r] = SubRespond(q, 500, "")]
            /\ UNCHANGED subs
       ELSE /\ subs' = {IF s.id = q.sub THEN Reactivated(s, now) ELSE s : s \in subs}
            /\ subReqs' = [subReqs EXCEPT ![r] = SubRespond(q, 200, "")]
    /\ UNCHANGED <<now, users, subSeq>>

\* BotSubscription.create under the unique index; a duplicate key ends 500
subscribe_Create(r) ==
    /\ subReqs[r].op = "subscribe" /\ subReqs[r].pc = "create"
    /\ LET q == subReqs[r]
           doc == NewSubscription(subSeq + 1, q.user, q.bot, now) IN
       IF SubIndexConflict(doc)
       THEN /\ subReqs' = [subReqs EXCEPT ![r] = SubRespond(q, 500, "")]
            /\ UNCHANGED <<subs, subSeq>>
       ELSE /\ subSeq < MaxSubs
            /\ subs' = subs \cup {doc}
            /\ subSeq' = subSeq + 1
            /\ subReqs' = [subReqs EXCEPT ![r] = SubRespond(q, 201, "")]
    /\ UNCHANGED <<now, users>>

\* ------------------------------------------------- GET /api/subscriptions/:id
getSubscription(r, user, id) ==
    /\ SubFree(r)
    /\ LET q == [IdleSubReq EXCEPT !.op = "get", !.user = user, !.sub = id] IN
       subReqs' = [subReqs EXCEPT ![r] =
          IF OwnedBy(user, id) = {} THEN SubRespond(q, 404, "subscription-not-found")
          ELSE SubRespond(q, 200, "")]
    /\ UNCHANGED <<now, users, subs, subSeq>>

\* ------------------------------------------- PUT /api/subscriptions/:id/cancel
cancel_Find(r, user, id) ==
    /\ SubFree(r)
    /\ LET q == [IdleSubReq EXCEPT !.op = "cancel", !.user = user, !.sub = id]
           found == OwnedBy(user, id) IN
       subReqs' = [subReqs EXCEPT ![r] =
          IF found = {}
          THEN SubRespond(q, 404, "subscription-not-found")
          ELSE IF \E s \in found : s.status = "cancelled"
          THEN SubRespond(q, 400, "already-cancelled")
          ELSE [q EXCEPT !.pc = "cancel"]]
    /\ UNCHANGED <<now, users, subs, subSeq>>

cancel_Update(r) ==
    /\ subReqs[r].op = "cancel" /\ subReqs[r].pc = "cancel"
    /\ LET q == subReqs[r] IN
       IF SubById(q.sub) = {}
       THEN /\ subReqs' = [subReqs EXCEPT ![r] = SubRespond(q, 500, "")]
            /\ UNCHANGED subs
       ELSE /\ subs' = {IF s.id = q.sub THEN Cancelled(s, now) ELSE s : s \in subs}
            /\ subReqs' = [subReqs EXCEPT ![r] = SubRespond(q, 200, "")]
    /\ UNCHANGED <<now, users, subSeq>>

\* ------------------------------------------------ DELETE /api/subscriptions/:id
\* findOneAndDelete({ _id: id, userId })
deleteSubscription(r, user, id) ==
    /\ SubFree(r)
    /\ LET q == [IdleSubReq EXCEPT !.op = "delete", !.user = user, !.sub = id]
           found == OwnedBy(user, id) IN
       /\ subs' = subs \ found
       /\ subReqs' = [subReqs EXCEPT ![r] =
             IF found = {} THEN SubRespond(q, 404, "subscription-not-found")
             ELSE SubRespond(q, 200, "")]
    /\ UNCHANGED <<now, users, subSeq>>

InitSub ==
    /\ now = 0
    /\ users = [u \in SubUsers |->
                  NewUser(IF u = 1 THEN "a@x.io" ELSE "b@x.io", "password1", Undef, TRUE)]
    /\ EmptyStores
    /\ NoBots

NextSub ==
    /\ UNCHANGED <<otpVars, resetVars, authVars, errVars, kycVars, botVars, signalVars>>
    /\ \/ \E r \in ReqIds : SubDeliver(r)
       \/ /\ SubQuiet
          /\ \/ SubTick
             \/ \E r \in ReqIds :
                 \/ \E user \in SubUsers, botId \in BotIds : subscribe_Find(r, user, botId)
                 \/ subscribe_Reactivate(r)
                 \/ subscribe_Create(r)
                 \/ \E user \in SubUsers, id \in 1..(subSeq + 1) : getSubscription(r, user, id)
                 \/ \E user \in SubUsers, id \in 1..(subSeq + 1) : cancel_Find(r, user, id)
                 \/ cancel_Update(r)
                 \/ \E user \in SubUsers, id \in 1..(subSeq + 1) : deleteSubscription(r, user, id)

SpecSub == InitSub /\ [][NextSub]_vars

\* ============================================================ error responses
\* The most significant decimal digit: `${statusCode}`.startsWith('4')
RECURSIVE FirstDigit(_)
FirstDigit(n) == IF n < 10 THEN n ELSE FirstDigit(n \div 10)

\* (mutant) every operational error is reported as "fail"
AppErrorStatus_Fail(statusCode) == "fail"

\* AppError's status: 'fail' when the code's text starts with '4', else 'error'
AppErrorStatus(statusCode) == IF FirstDigit(statusCode) = 4 THEN "fail" ELSE "error"

\* new AppError(message, statusCode, code): the constructor takes message and
\* statusCode; a third argument is not a parameter of it and is dropped
AppError(message, statusCode, code) ==
    [name |-> "AppError", message |-> message, statusCode |-> statusCode,
     status |-> AppErrorStatus(statusCode), isOperational |-> TRUE]

\* Any other error: new Error(message), a driver or validation error
PlainError(message) ==
    [name |-> "Error", message |-> message, statusCode |-> 0, status |-> "",
     isOperational |-> FALSE]

GenericMessage == "Something went wrong!"

\* errorHandler: the response for an error
ErrorResponse(err) ==
    IF err.name = "AppError"
    THEN [http |-> err.statusCode,
          body |-> [status |-> err.status, message |-> err.message]]
    ELSE [http |-> 500,
          body |-> [status |-> "error", message |-> GenericMessage]]

\* The auth middleware's own rejection
AuthRejection == [http |-> 401, body |-> [error |-> "Please authenticate."]]

\* What handlers raise: message, status code and code as the sources pass them
\* ("" where the call gives no code)
ErrMessages == {"Invalid email or password", "User not found",
                "Invalid or expired OTP", "Bot ID is required",
                "Email is required", "Passwords do not match",
                "Subscription not found", "Google Client IDs are not configured"}
ErrStatusCodes == {400, 401, 403, 404, 409, 429, 500}
ErrCodes == {"", "invalid-credentials", "invalid-otp", "missing-bot-id"}
PlainMessages == {"E11000 duplicate key error", "Failed to send verification email",
                  "Cannot read properties of null", GenericMessage}

\* a handler's catch block: next(error)
Throw(err) ==
    /\ thrown = NoError /\ response = NoResponse
    /\ thrown' = err
    /\ UNCHANGED response

\* app.use(errorHandler)
errorHandler ==
    /\ thrown # NoError /\ response = NoResponse
    /\ response' = ErrorResponse(thrown)
    /\ UNCHANGED thrown

\* the auth middleware's catch block
authReject ==
    /\ thrown = NoError /\ response = NoResponse
    /\ response' = AuthRejection
    /\ UNCHANGED thrown

\* the response has left the server
Sent ==
    /\ response # NoResponse
    /\ response' = NoResponse
    /\ thrown' = NoError

InitErr ==
    /\ now = 0
    /\ users = InitUsers
    /\ EmptyStores
    /\ NoBots

NextErr ==
    /\ UNCHANGED <<now, users, otpVars, resetVars, authVars, subVars, kycVars, botVars, signalVars>>
    /\ \/ \E m \in ErrMessages, sc \in ErrStatusCodes, c \in ErrCodes :
             Throw(AppError(m, sc, c))
       \/ \E m \in PlainMessages : Throw(PlainError(m))
       \/ errorHandler
       \/ authReject
       \/ Sent

SpecErr == InitErr /\ [][NextErr]_vars

\* ====================================================================== KYC
\* The route runs behind the auth middleware; req.user is the user it attached.
KycUsers == {1, 2}

\* req.body.pan and req.body.aadharNumber ("" when missing)
Pans == {"", "abcde1234f", "ABCDE1234F", "PQRST5678U", "ABCDE12345"}
Aadhars == {"", "111122223333", "444455556666", "1111"}

\* String.prototype.toUpperCase on the PANs requests carry here
Upper(p) == CASE p = "abcde1234f" -> "ABCDE1234F"
              [] OTHER -> p

\* validatePAN: /^[A-Z]{5}[0-9]{4}[A-Z]{1}$/ on pan.toUpperCase()
validatePAN(pan) == Upper(pan) \in {"ABCDE1234F", "PQRST5678U"}

\* validateAadhar: /^\d{12}$/
validateAadhar(aadhar) == aadhar \in {"111122223333", "444455556666"}

\* The document KYC.create stores: the optional sections default to undefined
\* (absent from sections), status is the one the handler passes
NewKyc(d) ==
    [userId |-> d.userId, pan |-> d.pan, aadharNumber |-> d.aadharNumber,
     sections |-> {}, status |-> "in_progress"]

KycOf(userId) == {k \in kycs : k.userId = userId}

\* KYC.findOne({ userId: { $ne }, $or: [{ pan }, { aadharNumber }] })
OthersWith(userId, pan, aadhar) ==
    {k \in kycs : k.userId # userId /\ (k.pan = pan \/ k.aadharNumber = aadhar)}

\* (mutant) no unique indexes on the KYC collection
KycIndexConflict_None(d) == FALSE

\* The unique indexes userId, basicDetails.pan and basicDetails.aadharNumber:
\* would storing d, in place of its user's document if there is one, violate them?
KycIndexConflict(d) ==
    \E k \in kycs \ KycOf(d.userId) : k.pan = d.pan \/ k.aadharNumber = d.aadharNumber

KycQuiet == \A r \in ReqIds : kycReqs[r].pc # "done"

KycFree(r) ==
    /\ kycReqs[r].pc = "idle"
    /\ r = 2 => kycReqs[1].pc # "idle"

KycRespond(q, status, code) ==
    [IdleKycReq EXCEPT !.op = q.op, !.pc = "done", !.user = q.user, !.pan = q.pan,
                       !.aadharNumber = q.aadharNumber,
                       !.status = status, !.code = code]

KycDeliver(r) ==
    /\ kycReqs[r].pc = "done"
    /\ kycReqs' = [kycReqs EXCEPT ![r] = IdleKycReq]
    /\ UNCHANGED kycs

\* --------------------------------------------------- POST /api/kyc/basic-details
\* validation, then the lookup of another user's record with the PAN or Aadhar
\* (fullName, dob and gender are valid)
basicDetails_CheckOthers(r, user, pan, aadhar) ==
    /\ KycFree(r)
    /\ LET q == [IdleKycReq EXCEPT !.op = "basicDetails", !.user = user, !.pan = pan,
                                   !.aadharNumber = aadhar] IN
       kycReqs' = [kycReqs EXCEPT ![r] =
          IF pan = "" \/ aadhar = ""
          THEN KycRespond(q, 400, "missing-required-fields")
          ELSE IF ~validatePAN(pan) THEN KycRespond(q, 400, "invalid-pan")
          ELSE IF ~validateAadhar(aadhar) THEN KycRespond(q, 400, "invalid-aadhar")
          ELSE IF OthersWith(user, Upper(pan), aadhar) # {}
          THEN KycRespond(q, 409, "duplicate-kyc-details")
          ELSE [q EXCEPT !.pc = "findOwn"]]
    /\ UNCHANGED kycs

\* KYC.findOne({ userId })
basicDetails_FindOwn(r) ==
    /\ kycReqs[r].op = "basicDetails" /\ kycReqs[r].pc = "findOwn"
    /\ kycReqs' = [kycReqs EXCEPT ![r] =
          [@ EXCEPT !.pc = IF KycOf(kycReqs[r].user) # {} THEN "update" ELSE "create"]]
    /\ UNCHANGED kycs

\* KYC.findOneAndUpdate({ userId }, { $set: ... }); a duplicate key ends 500
basicDetails_Update(r) ==
    /\ kycReqs[r].op = "basicDetails" /\ kycReqs[r].pc = "update"
    /\ LET q == kycReqs[r]
           doc == [userId |-> q.user, pan |-> Upper(q.pan), aadharNumber |-> q.aadharNumber] IN
       IF KycOf(q.user) = {}
       THEN /\ kycReqs' = [kycReqs EXCEPT ![r] = KycRespond(q, 500, "kyc-operation-failed")]
            /\ UNCHANGED kycs
       ELSE IF KycIndexConflict(doc)
       THEN /\ kycReqs' = [kycReqs EXCEPT ![r] = KycRespond(q, 500, "")]
            /\ UNCHANGED kycs
       ELSE /\ kycs' = (kycs \ KycOf(q.user)) \cup
                       {[k EXCEPT !.pan = doc.pan, !.aadharNumber = doc.aadharNumber,
                                  !.status = "in_progress"] : k \in KycOf(q.user)}
            /\ kycReqs' = [kycReqs EXCEPT ![r] = KycRespond(q, 201, "")]

\* KYC.create({ userId, basicDetails, status }); a duplicate key ends 500
basicDetails_Create(r) ==
    /\ kycReqs[r].op = "basicDetails" /\ kycReqs[r].pc = "create"
    /\ LET q == kycReqs[r]
           doc == [userId |-> q.user, pan |-> Upper(q.pan), aadharNumber |-> q.aadharNumber] IN
       IF KycOf(q.user) # {} \/ KycIndexConflict(doc)
       THEN /\ kycReqs' = [kycReqs EXCEPT ![r] = KycRespond(q, 500, "")]
            /\ UNCHANGED kycs
       ELSE /\ kycs' = kycs \cup {NewKyc(doc)}
            /\ kycReqs' = [kycReqs EXCEPT ![r] = KycRespond(q, 201, "")]

InitKyc ==
    /\ now = 0
    /\ users = [u \in KycUsers |->
                  NewUser(IF u = 1 THEN "a@x.io" ELSE "b@x.io", "password1", Undef, TRUE)]
    /\ EmptyStores
    /\ NoBots

NextKyc ==
    /\ UNCHANGED <<now, users, otpVars, resetVars, authVars, subVars, errVars, botVars, signalVars>>
    /\ \/ \E r \in ReqIds : KycDeliver(r)
       \/ /\ KycQuiet
          /\ \E r \in ReqIds :
              \/ \E user \in KycUsers, pan \in Pans, aadhar \in Aadhars :
                    basicDetails_CheckOthers(r, user, pan, aadhar)
              \/ basicDetails_FindOwn(r)
              \/ basicDetails_Update(r)
              \/ basicDetails_Create(r)

SpecKyc == InitKyc /\ [][NextKyc]_vars

\* ------------- POST /api/kyc/risk-profiling, /capital-management, /experience
KycSections == {"riskProfiling", "capitalManagement", "experience"}
KycStatuses == {"pending", "in_progress", "completed", "rejected"}

\* req.body.questionsAndAnswers: no array, a blank question, a blank answer, valid
QAs == {"none", "blank-question", "blank-answer", "valid"}

\* The section the handler requires on the existing record, and its error code
\* (risk profiling requires none)
Required(section) ==
    CASE section = "capitalManagement" -> "riskProfiling"
      [] section = "experience" -> "capitalManagement"
      [] OTHER -> ""

RequiredCode(section) ==
    CASE section = "capitalManagement" -> "risk-profiling-required"
      [] OTHER -> "capital-management-required"

\* (mutant) the handlers, were they not to look at the earlier section
SectionCheck_None(section, k) == TRUE

\* !existingKYC.riskProfiling / !existingKYC.capitalManagement
SectionCheck(section, k) == Required(section) = "" \/ Required(section) \in k.sections

\* validation, KYC.findOne({ userId }) and the checks on the record found
submitSection_Find(r, user, section, qa) ==
    /\ KycFree(r)
    /\ LET q == [IdleKycReq EXCEPT !.op = section, !.user = user] IN
       IF qa = "none"
       THEN kycReqs' = [kycReqs EXCEPT ![r] = KycRespond(q, 400, "missing-required-fields")]
       ELSE IF qa = "blank-question"
       THEN kycReqs' = [kycReqs EXCEPT ![r] = KycRespond(q, 400, "invalid-question")]
       ELSE IF qa = "blank-answer"
       THEN kycReqs' = [kycReqs EXCEPT ![r] = KycRespond(q, 400, "invalid-answer")]
       ELSE IF KycOf(user) = {}
       THEN kycReqs' = [kycReqs EXCEPT ![r] = KycRespond(q, 400, "basic-kyc-required")]
       ELSE \E k \in KycOf(user) :
              kycReqs' = [kycReqs EXCEPT ![r] =
                 IF ~SectionCheck(section, k) THEN KycRespond(q, 400, RequiredCode(section))
                 ELSE [q EXCEPT !.pc = "setSection", !.seen = k.status]]
    /\ UNCHANGED kycs

\* KYC.findOneAndUpdate({ userId }, { $set: { <section>, status } },
\* { runValidators: true }): a status outside the enum fails validation (500),
\* no record gives null (500 <section>-update-failed)
submitSection_Update(r) ==
    /\ kycReqs[r].op \in KycSections /\ kycReqs[r].pc = "setSection"
    /\ LET q == kycReqs[r]
           status == IF q.seen = "in_progress" THEN "in_progress" ELSE "pending_verification" IN
       IF status \notin KycStatuses
       THEN /\ kycReqs' = [kycReqs EXCEPT ![r] = KycRespond(q, 500, "")]
            /\ UNCHANGED kycs
       ELSE IF KycOf(q.user) = {}
       THEN /\ kycReqs' = [kycReqs EXCEPT ![r] = KycRespond(q, 500,
                    CASE q.op = "riskProfiling" -> "risk-profiling-update-failed"
                      [] q.op = "capitalManagement" -> "capital-management-update-failed"
                      [] OTHER -> "experience-update-failed")]
            /\ UNCHANGED kycs
       ELSE /\ kycs' = (kycs \ KycOf(q.user)) \cup
                       {[k EXCEPT !.sections = @ \cup {q.op}, !.status = status] :
                          k \in KycOf(q.user)}
            /\ kycReqs' = [kycReqs EXCEPT ![r] = KycRespond(q, 200, "")]

\* The KYC router with every section; basic details carry one PAN and Aadhar
\* number per user or a PAN the other user may hold.
NextKycSections ==
    /\ UNCHANGED <<now, users, otpVars, resetVars, authVars, subVars, errVars, botVars, signalVars>>
    /\ \/ \E r \in ReqIds : KycDeliver(r)
       \/ /\ KycQuiet
          /\ \E r \in ReqIds :
              \/ \E user \in KycUsers, pan \in {"ABCDE1234F", "PQRST5678U"} :
                    basicDetails_CheckOthers(r, user, pan,
                        IF user = 1 THEN "111122223333" ELSE "444455556666")
              \/ basicDetails_FindOwn(r)
              \/ basicDetails_Update(r)
              \/ basicDetails_Create(r)
              \/ \E user \in KycUsers, section \in KycSections, qa \in QAs :
                    submitSection_Find(r, user, section, qa)
              \/ submitSection_Update(r)

SpecKycSections == InitKyc /\ [][NextKycSections]_vars

\* =========================================================== bots and groups
\* The routes run behind the auth middleware; req.user is the user it attached.
BotNames == {"", "alpha", "beta"}
GroupNames == {"", "growth"}

\* A path segment below /api/bots: its text, and the ObjectId the text casts
\* to (0 when the text is not 24 hex digits)
Lit(text) == [text |-> text, oid |-> 0]
IdSeg(id) == [text |-> "oid", oid |-> id]
Param == [text |-> ":id", oid |-> 0]

\* The GET routes of the bot router, in registration order
BotGetRoutes ==
    << [pattern |-> <<>>, handler |-> "list"],
       [pattern |-> <<Param>>, handler |-> "getById"],
       [pattern |-> <<Param, Lit("subscribers")>>, handler |-> "subscribers"],
       [pattern |-> <<Lit("subscribed")>>, handler |-> "subscribed"],
       [pattern |-> <<Param, Lit("performance-overview")>>, handler |-> "performance"] >>

\* A route pattern matches a path: same length, each segment equal or a parameter
Matches(pattern, path) ==
    /\ Len(pattern) = Len(path)
    /\ \A i \in 1..Len(pattern) : pattern[i] = Param \/ pattern[i] = path[i]

\* Express: the first registered route whose pattern matches
Dispatch(routes, path) ==
    LET hits == {i \in 1..Len(routes) : Matches(routes[i].pattern, path)} IN
    IF hits = {} THEN "none"
    ELSE routes[CHOOSE i \in hits : \A j \in hits : i <= j].handler

GroupById(id) == {g \in groups : g.id = id}
BotById(id) == {b \in bots : b.id = id}
BotsNamed(name) == {b \in bots : b.name = name}
GroupsNamed(name) == {g \in groups : g.name = name}

\* the bots a user's active subscriptions refer to
ActiveBotIds(user) == {s.botId : s \in {t \in subs : t.userId = user /\ t.status = "active"}}

BotQuiet == \A r \in ReqIds : botReqs[r].pc # "done"

BotFree(r) ==
    /\ botReqs[r].pc = "idle"
    /\ r = 2 => botReqs[1].pc # "idle"

BotRespond(q, status, code) ==
    [IdleBotReq EXCEPT !.op = q.op, !.pc = "done", !.user = q.user, !.path = q.path,
                       !.status = status, !.code = code]

BotDeliver(r) ==
    /\ botReqs[r].pc = "done"
    /\ botReqs' = [botReqs EXCEPT ![r] = IdleBotReq]
    /\ UNCHANGED <<groups, groupSeq, bots, botSeq>>

\* ------------------------------------------------------------ POST /api/bots
\* validation and Group.findById (description and recommendedCapital are given)
createBot_FindGroup(r, name, groupId) ==
    /\ BotFree(r)
    /\ LET q == [IdleBotReq EXCEPT !.op = "createBot", !.name = name, !.groupId = groupId] IN
       botReqs' = [botReqs EXCEPT ![r] =
          IF name = "" \/ groupId = 0 THEN BotRespond(q, 400, "missing-required-fields")
          ELSE IF GroupById(groupId) = {} THEN BotRespond(q, 404, "group-not-found")
          ELSE [q EXCEPT !.pc = "findName"]]
    /\ UNCHANGED <<groups, groupSeq, bots, botSeq>>

\* Bot.findOne({ name })
createBot_FindName(r) ==
    /\ botReqs[r].op = "createBot" /\ botReqs[r].pc = "findName"
    /\ botReqs' = [botReqs EXCEPT ![r] =
          IF BotsNamed(botReqs[r].name) # {}
          THEN BotRespond(botReqs[r], 409, "duplicate-bot-name")
          ELSE [botReqs[r] EXCEPT !.pc = "create"]]
    /\ UNCHANGED <<groups, groupSeq, bots, botSeq>>

\* Bot.create({ name, ..., groupId })
createBot_Create(r) ==
    /\ botReqs[r].op = "createBot" /\ botReqs[r].pc = "create"
    /\ botSeq < MaxBots
    /\ bots' = bots \cup {[id |-> botSeq + 1, name |-> botReqs[r].name,
                           groupId |-> botReqs[r].groupId]}
    /\ botSeq' = botSeq + 1
    /\ botReqs' = [botReqs EXCEPT ![r] = BotRespond(botReqs[r], 201, "")]
    /\ UNCHANGED <<groups, groupSeq>>

\* --------------------------------------------------------- PUT /api/bots/:id
\* what updateBot does after a step, given what is still to be checked
UpdateBotNext(q, from) ==
    IF from = "find" /\ q.groupId # 0 /\ q.groupId # q.curGroup THEN "findGroup"
    ELSE IF q.name # "" /\ q.name # q.curName THEN "findName"
    ELSE "update"

\* validation and Bot.findById
updateBot_Find(r, id, name, groupId) ==
    /\ BotFree(r)
    /\ LET q == [IdleBotReq EXCEPT !.op = "updateBot", !.id = id, !.name = name,
                                   !.groupId = groupId] IN
       IF name = "" /\ groupId = 0
       THEN botReqs' = [botReqs EXCEPT ![r] = BotRespond(q, 400, "no-update-fields")]
       ELSE IF BotById(id) = {}
       THEN botReqs' = [botReqs EXCEPT ![r] = BotRespond(q, 404, "bot-not-found")]
       ELSE \E b \in BotById(id) :
              LET q2 == [q EXCEPT !.curName = b.name, !.curGroup = b.groupId] IN
              botReqs' = [botReqs EXCEPT ![r] = [q2 EXCEPT !.pc = UpdateBotNext(q2, "find")]]
    /\ UNCHANGED <<groups, groupSeq, bots, botSeq>>

\* Group.findById(groupId)
updateBot_FindGroup(r) ==
    /\ botReqs[r].op = "updateBot" /\ botReqs[r].pc = "findGroup"
    /\ botReqs' = [botReqs EXCEPT ![r] =
          IF GroupById(botReqs[r].groupId) = {}
          THEN BotRespond(botReqs[r], 404, "group-not-found")
          ELSE [botReqs[r] EXCEPT !.pc = UpdateBotNext(botReqs[r], "findGroup")]]
    /\ UNCHANGED <<groups, groupSeq, bots, botSeq>>

\* Bot.findOne({ name, _id: { $ne: id } })
updateBot_FindName(r) ==
    /\ botReqs[r].op = "updateBot" /\ botReqs[r].pc = "findName"
    /\ botReqs' = [botReqs EXCEPT ![r] =
          IF BotsNamed(botReqs[r].name) \ BotById(botReqs[r].id) # {}
          THEN BotRespond(botReqs[r], 409, "duplicate-bot-name")
          ELSE [botReqs[r] EXCEPT !.pc = "update"]]
    /\ UNCHANGED <<groups, groupSeq, bots, botSeq>>

\* Bot.findByIdAndUpdate(id, { $set: updateData })
updateBot_Update(r) ==
    /\ botReqs[r].op = "updateBot" /\ botReqs[r].pc = "update"
    /\ LET q == botReqs[r] IN
       IF BotById(q.id) = {}
       THEN /\ botReqs' = [botReqs EXCEPT ![r] = BotRespond(q, 500, "bot-update-failed")]
            /\ UNCHANGED bots
       ELSE /\ bots' = {IF b.id = q.id
                        THEN [b EXCEPT !.name = IF q.name # "" THEN q.name ELSE @,
                                       !.groupId = IF q.groupId # 0 THEN q.groupId ELSE @]
                        ELSE b : b \in bots}
            /\ botReqs' = [botReqs EXCEPT ![r] = BotRespond(q, 200, "")]
    /\ UNCHANGED <<groups, groupSeq, botSeq>>

\* ------------------------------------------------------ DELETE /api/bots/:id
deleteBot(r, id) ==
    /\ BotFree(r)
    /\ LET q == [IdleBotReq EXCEPT !.op = "deleteBot", !.id = id] IN
       /\ bots' = bots \ BotById(id)
       /\ botReqs' = [botReqs EXCEPT ![r] =
             IF BotById(id) = {} THEN BotRespond(q, 404, "bot-not-found")
             ELSE BotRespond(q, 200, "")]
    /\ UNCHANGED <<groups, groupSeq, botSeq>>

\* ---------------------------------------------------------- POST /api/groups
createGroup_Find(r, name) ==
    /\ BotFree(r)
    /\ LET q == [IdleBotReq EXCEPT !.op = "createGroup", !.name = name] IN
       botReqs' = [botReqs EXCEPT ![r] =
          IF name = "" THEN BotRespond(q, 400, "missing-group-name")
          ELSE IF GroupsNamed(name) # {} THEN BotRespond(q, 409, "group-name-exists")
          ELSE [q EXCEPT !.pc = "create"]]
    /\ UNCHANGED <<groups, groupSeq, bots, botSeq>>

\* Group.create under the unique index on name; a duplicate key ends 500
createGroup_Create(r) ==
    /\ botReqs[r].op = "createGroup" /\ botReqs[r].pc = "create"
    /\ IF GroupsNamed(botReqs[r].name) # {}
       THEN /\ botReqs' = [botReqs EXCEPT ![r] = BotRespond(botReqs[r], 500, "")]
            /\ UNCHANGED <<groups, groupSeq>>
       ELSE /\ groupSeq < MaxGroups
            /\ groups' = groups \cup {[id |-> groupSeq + 1, name |-> botReqs[r].name]}
            /\ groupSeq' = groupSeq + 1
            /\ botReqs' = [botReqs EXCEPT ![r] = BotRespond(botReqs[r], 201, "")]
    /\ UNCHANGED <<bots, botSeq>>

\* ------------------------------------------------------- PUT /api/groups/:id
updateGroup_Find(r, id, name) ==
    /\ BotFree(r)
    /\ LET q == [IdleBotReq EXCEPT !.op = "updateGroup", !.id = id, !.name = name] IN
       botReqs' = [botReqs EXCEPT ![r] =
          IF name = "" THEN BotRespond(q, 400, "missing-group-name")
          ELSE IF GroupById(id) = {} THEN BotRespond(q, 404, "group-not-found")
          ELSE [q EXCEPT !.pc = "findName"]]
    /\ UNCHANGED <<groups, groupSeq, bots, botSeq>>

\* Group.findOne({ name, _id: { $ne: id } })
updateGroup_FindName(r) ==
    /\ botReqs[r].op = "updateGroup" /\ botReqs[r].pc = "findName"
    /\ botReqs' = [botReqs EXCEPT ![r] =
          IF GroupsNamed(botReqs[r].name) \ GroupById(botReqs[r].id) # {}
          THEN BotRespond(botReqs[r], 409, "group-name-exists")
          ELSE [botReqs[r] EXCEPT !.pc = "update"]]
    /\ UNCHANGED <<groups, groupSeq, bots, botSeq>>

\* Group.findByIdAndUpdate; no document (the handler dereferences null) or a
\* duplicate key ends 500
updateGroup_Update(r) ==
    /\ botReqs[r].op = "updateGroup" /\ botReqs[r].pc = "update"
    /\ LET q == botReqs[r] IN
       IF GroupById(q.id) = {} \/ GroupsNamed(q.name) \ GroupById(q.id) # {}
       THEN /\ botReqs' = [botReqs EXCEPT ![r] = BotRespond(q, 500, "")]
            /\ UNCHANGED groups
       ELSE /\ groups' = {IF g.id = q.id THEN [g EXCEPT !.name = q.name] ELSE g : g \in groups}
            /\ botReqs' = [botReqs EXCEPT ![r] = BotRespond(q, 200, "")]
    /\ UNCHANGED <<groupSeq, bots, botSeq>>

\* ---------------------------------------------------- DELETE /api/groups/:id
deleteGroup_Find(r, id) ==
    /\ BotFree(r)
    /\ LET q == [IdleBotReq EXCEPT !.op = "deleteGroup", !.id = id] IN
       botReqs' = [botReqs EXCEPT ![r] =
          IF GroupById(id) = {} THEN BotRespond(q, 404, "group-not-found")
          ELSE [q EXCEPT !.pc = "delete"]]
    /\ UNCHANGED <<groups, groupSeq, bots, botSeq>>

\* Group.findByIdAndDelete(id): no check for bots using the group
deleteGroup_Delete(r) ==
    /\ botReqs[r].op = "deleteGroup" /\ botReqs[r].pc = "delete"
    /\ groups' = groups \ GroupById(botReqs[r].id)
    /\ botReqs' = [botReqs EXCEPT ![r] = BotRespond(botReqs[r], 200, "")]
    /\ UNCHANGED <<groupSeq, bots, botSeq>>

\* -------------------------------------------------------- GET /api/bots/...
\* The handler the router dispatches the path to; each reads in one step.
\* Bot.findById(id) with an id that is no ObjectId throws a CastError: 500.
\* GET /subscribed maps each active subscription's populated bot; a
\* subscription whose bot is gone populates null and the handler throws: 500.
getBots(r, user, path) ==
    /\ BotFree(r)
    /\ LET q == [IdleBotReq EXCEPT !.op = "GET", !.user = user, !.path = path]
           h == Dispatch(BotGetRoutes, path) IN
       botReqs' = [botReqs EXCEPT ![r] =
          IF h = "list"
          THEN [BotRespond(q, 200, "") EXCEPT !.data = {b.id : b \in bots}]
          ELSE IF h \in {"getById", "subscribers", "performance"}
          THEN IF path[1].oid = 0 THEN BotRespond(q, 500, "")
               ELSE IF BotById(path[1].oid) = {} THEN BotRespond(q, 404, "bot-not-found")
               ELSE [BotRespond(q, 200, "") EXCEPT !.data = {path[1].oid}]
          ELSE IF h = "subscribed"
          THEN IF \E b \in ActiveBotIds(user) : BotById(b) = {}
               THEN BotRespond(q, 500, "")
               ELSE [BotRespond(q, 200, "") EXCEPT !.data = ActiveBotIds(user)]
          ELSE BotRespond(q, 404, "")]
    /\ UNCHANGED <<groups, groupSeq, bots, botSeq>>

GetPaths ==
    {<<>>, <<Lit("subscribed")>>, <<Lit("subscribed"), Lit("subscribers")>>}
        \cup {<<IdSeg(b)>> : b \in 1..MaxBots}
        \cup {<<IdSeg(b), Lit("subscribers")>> : b \in 1..MaxBots}

\* One group with one bot in it; user 1 is subscribed to the bot or not.
InitBot ==
    /\ now = 0
    /\ users = [u \in SubUsers |->
                  NewUser(IF u = 1 THEN "a@x.io" ELSE "b@x.io", "password1", Undef, TRUE)]
    /\ otps = {} /\ otpSeq = 0 /\ otpReqs = [r \in ReqIds |-> IdleReq]
    /\ issued = {} /\ consumed = {}
    /\ resetReqs = [r \in ReqIds |-> IdleResetReq]
    /\ tokenSeq = 0 /\ issuedAt = <<>> /\ spent = {}
    /\ authReqs = [r \in ReqIds |-> IdleAuthReq] /\ jwts = {}
    /\ subs \in {{}, {NewSubscription(1, 1, 1, 0)}}
    /\ subSeq = Cardinality(subs)
    /\ subReqs = [r \in ReqIds |-> IdleSubReq]
    /\ thrown = NoError /\ response = NoResponse
    /\ kycs = {} /\ kycReqs = [r \in ReqIds |-> IdleKycReq]
    /\ groups = {[id |-> 1, name |-> "growth"]} /\ groupSeq = 1
    /\ bots = {[id |-> 1, name |-> "alpha", groupId |-> 1]} /\ botSeq = 1
    /\ botReqs = [r \in ReqIds |-> IdleBotReq]
    /\ signals = {} /\ signalSeq = 0
    /\ signalReqs = [r \in ReqIds |-> IdleSignalReq]

NextBot ==
    /\ UNCHANGED <<now, users, otpVars, resetVars, authVars, subVars, errVars, kycVars, signalVars>>
    /\ \/ \E r \in ReqIds : BotDeliver(r)
       \/ /\ BotQuiet
          /\ \E r \in ReqIds :
              \/ \E name \in BotNames, g \in 0..MaxGroups : createBot_FindGroup(r, name, g)
              \/ createBot_FindName(r)
              \/ createBot_Create(r)
              \/ \E id \in 1..MaxBots, name \in BotNames, g \in 0..MaxGroups :
                    updateBot_Find(r, id, name, g)
              \/ updateBot_FindGroup(r)
              \/ updateBot_FindName(r)
              \/ updateBot_Update(r)
              \/ \E id \in 1..MaxBots : deleteBot(r, id)
              \/ \E name \in GroupNames : createGroup_Find(r, name)
              \/ createGroup_Create(r)
              \/ \E id \in 1..MaxGroups, name \in GroupNames : updateGroup_Find(r, id, name)
              \/ updateGroup_FindName(r)
              \/ updateGroup_Update(r)
              \/ \E id \in 1..MaxGroups : deleteGroup_Find(r, id)
              \/ deleteGroup_Delete(r)
              \/ \E user \in SubUsers, path \in GetPaths : getBots(r, user, path)

SpecBot == InitBot /\ [][NextBot]_vars

\* ================================================================= signals
TradeIds == {0, 1, 2}
Directions == {"LONG", "SHORT", "UP"}

SignalsOf(botId, tradeId) == {s \in signals : s.botId = botId /\ s.tradeId = tradeId}

\* The unique indexes of the Signal collection reject the document: tradeId is
\* declared unique on its own, and { botId, tradeId } is unique as a pair
SignalIndexConflict(d) ==
    \/ \E s \in signals : s.tradeId = d.tradeId
    \/ \E s \in signals : s.botId = d.botId /\ s.tradeId = d.tradeId

SignalQuiet == \A r \in ReqIds : signalReqs[r].pc # "done"

SignalFree(r) ==
    /\ signalReqs[r].pc = "idle"
    /\ r = 2 => signalReqs[1].pc # "idle"

\* the answer keeps what the request asked to store
SignalRespond(q, status, code) == [q EXCEPT !.pc = "done", !.status = status, !.code = code]

SignalDeliver(r) ==
    /\ signalReqs[r].pc = "done"
    /\ signalReqs' = [signalReqs EXCEPT ![r] = IdleSignalReq]
    /\ UNCHANGED <<signals, signalSeq>>

\* validation and Bot.findById(botId); the other required fields are given
createSignal_FindBot(r, botId, tradeId, direction) ==
    /\ SignalFree(r)
    /\ LET q == [IdleSignalReq EXCEPT !.op = "createSignal", !.botId = botId,
                                      !.tradeId = tradeId, !.direction = direction] IN
       signalReqs' = [signalReqs EXCEPT ![r] =
          IF botId = 0 \/ tradeId = 0 THEN SignalRespond(q, 400, "missing-required-fields")
          ELSE IF direction \notin {"LONG", "SHORT"}
          THEN SignalRespond(q, 400, "invalid-direction")
          ELSE IF BotById(botId) = {} THEN SignalRespond(q, 404, "bot-not-found")
          ELSE [q EXCEPT !.pc = "findOne"]]
    /\ UNCHANGED <<signals, signalSeq>>

\* Signal.findOne({ botId, tradeId })
createSignal_FindOne(r) ==
    /\ signalReqs[r].op = "createSignal" /\ signalReqs[r].pc = "findOne"
    /\ signalReqs' = [signalReqs EXCEPT ![r] =
          IF SignalsOf(signalReqs[r].botId, signalReqs[r].tradeId) # {}
          THEN SignalRespond(signalReqs[r], 409, "duplicate-trade-id")
          ELSE [signalReqs[r] EXCEPT !.pc = "create"]]
    /\ UNCHANGED <<signals, signalSeq>>

\* Signal.create: a duplicate key is no AppError, the error handler answers 500
createSignal_Create(r) ==
    /\ signalReqs[r].op = "createSignal" /\ signalReqs[r].pc = "create"
    /\ LET q == signalReqs[r]
           d == [id |-> signalSeq + 1, botId |-> q.botId, tradeId |-> q.tradeId,
                 direction |-> q.direction] IN
       IF SignalIndexConflict(d)
       THEN /\ signalReqs' = [signalReqs EXCEPT ![r] = SignalRespond(q, 500, "")]
            /\ UNCHANGED <<signals, signalSeq>>
       ELSE /\ signalSeq < MaxSignals
            /\ signals' = signals \cup {d}
            /\ signalSeq' = signalSeq + 1
            /\ signalReqs' = [signalReqs EXCEPT ![r] = SignalRespond(q, 201, "")]

\* DELETE /api/signals/:id
deleteSignal(r, id) ==
    /\ SignalFree(r)
    /\ LET q == [IdleSignalReq EXCEPT !.op = "deleteSignal"] IN
       /\ signals' = {s \in signals : s.id # id}
       /\ signalReqs' = [signalReqs EXCEPT ![r] =
             IF \E s \in signals : s.id = id THEN SignalRespond(q, 200, "")
             ELSE SignalRespond(q, 404, "signal-not-found")]
    /\ UNCHANGED signalSeq

\* Two bots of one group, no signal yet.
InitSignal ==
    /\ now = 0
    /\ users = InitUsers
    /\ EmptyStores
    /\ groups = {[id |-> 1, name |-> "growth"]} /\ groupSeq = 1
    /\ bots = {[id |-> 1, name |-> "alpha", groupId |-> 1],
               [id |-> 2, name |-> "beta", groupId |-> 1]}
    /\ botSeq = 2

NextSignal ==
    /\ UNCHANGED <<now, users, otpVars, resetVars, authVars, subVars, errVars, kycVars, botVars>>
    /\ \/ \E r \in ReqIds : SignalDeliver(r)
       \/ /\ SignalQuiet
          /\ \E r \in ReqIds :
              \/ \E b \in 0..(MaxBots + 1), t \in TradeIds, d \in Directions :
                    createSignal_FindBot(r, b, t, d)
              \/ createSignal_FindOne(r)
              \/ createSignal_Create(r)
              \/ \E id \in 1..MaxSignals : deleteSignal(r, id)

SpecSignal == InitSignal /\ [][NextSignal]_vars

\* ================================================================ claims

\* A step in which slot r takes a new call of verifyOTP
VerifyLookup(r) == otpReqs[r].pc = "idle" /\ otpReqs'[r].op = "verifyOTP"

AskedFor(q) ==
    {o \in issued : /\ o.otp = q.otp
                    /\ o.type = (IF q.email # "" THEN "email" ELSE "phone")
                    /\ OtpSubject(o) = (IF q.email # "" THEN q.email ELSE q.phone)}

\* C1: verifyOTP never succeeds for an OTP at or after its expiresAt, which is
\* its creation time plus 5 minutes: a lookup that succeeds does so on a record
\* whose expiresAt is later than the time of the attempt, and a lookup made when
\* every record issued for that subject, type and code has expired returns
\* false, whether the TTL deletion has removed the records or not.
C1_NoVerifyAfterExpiry ==
    [][\A r \in ReqIds : VerifyLookup(r) =>
          LET q == otpReqs'[r] IN
          /\ q.pc = "delete" =>
                /\ now < q.rec.expiresAt
                /\ q.rec.expiresAt = q.rec.createdAt + 5 * 60
          /\ (\A o \in AskedFor(q) : now >= o.createdAt + 5 * 60) =>
                q.pc = "done" /\ q.ret = "false"]_vars

\* C1 witness: a verification of a code that was issued, never consumed and
\* has expired has returned false.
C1_Witness ==
    \E r \in ReqIds :
        /\ otpReqs[r].op = "verifyOTP" /\ otpReqs[r].pc = "done"
        /\ otpReqs[r].ret = "false"
        /\ otpReqs[r].askedExpired /\ ~otpReqs[r].askedConsumed

\* C2: a successful verifyOTP consumes the OTP: when it returns true the
\* matched record is gone from the store, and a later verification never
\* succeeds on a consumed record: with the same subject, type and code it
\* returns false unless a different, unexpired, unconsumed record with that
\* code exists for the subject.
C2_VerifyConsumes ==
    [][\A r \in ReqIds :
          /\ (otpReqs[r].pc = "delete" /\ otpReqs'[r].ret = "true") =>
                \A o \in otps' : o.id # otpReqs[r].rec.id
          /\ VerifyLookup(r) =>
                LET q == otpReqs'[r] IN
                /\ q.pc = "delete" => q.rec.id \notin consumed
                /\ (\A o \in AskedFor(q) : o.id \in consumed \/ o.expiresAt <= now) =>
                      q.pc = "done" /\ q.ret = "false"]_vars

\* C2 witness: a verification with the subject, type and code of a consumed
\* OTP has returned false.
C2_Witness ==
    \E r \in ReqIds :
        /\ otpReqs[r].op = "verifyOTP" /\ otpReqs[r].pc = "done"
        /\ otpReqs[r].ret = "false"
        /\ otpReqs[r].askedConsumed /\ ~otpReqs[r].askedExpired

\* C3: for a given subject and type no two OTP records are created less than
\* 60 seconds apart.
C3_Cooldown ==
    \A a, b \in issued :
        (a.id # b.id /\ a.type = b.type /\ OtpSubject(a) = OtpSubject(b)) =>
            (a.createdAt - b.createdAt >= 60 \/ b.createdAt - a.createdAt >= 60)

\* A request slot takes a reset-password or validate-reset-token request in
\* this step (the step holds its validation and its token lookup).
TokenLookup(r) ==
    /\ resetReqs[r].pc = "idle"
    /\ resetReqs'[r].op \in {"resetPassword", "validateResetToken"}

\* The request's body passes the handler's validation.
WellFormed(q) ==
    /\ q.token # -1
    /\ q.op = "resetPassword" =>
          /\ q.newPassword # "" /\ q.confirmPassword # ""
          /\ q.newPassword = q.confirmPassword
          /\ Len(q.newPassword) >= 8

\* The request is refused and nothing is stored; a well-formed one is refused
\* with invalid-reset-token.
Refused(q) ==
    /\ q.pc = "done" /\ q.status = 400
    /\ WellFormed(q) => q.code = "invalid-reset-token"

\* C4: a successful reset-password clears the user's stored token hash and
\* expiry, and every reset-password or validate-reset-token request that
\* arrives after a successful reset with the same token is refused (with
\* invalid-reset-token when its body is well-formed) and changes no user.
C4_TokenSingleUse ==
    [][/\ \A r \in ReqIds :
            (/\ resetReqs[r].op = "resetPassword" /\ resetReqs[r].pc = "save"
             /\ resetReqs'[r].pc = "done")
            => /\ resetReqs'[r].status = 200
               /\ users'[resetReqs[r].user].resetPasswordToken = NoToken
               /\ users'[resetReqs[r].user].resetPasswordExpires = NoDate
               /\ resetReqs[r].token \in spent'
       /\ \A r \in ReqIds :
            (TokenLookup(r) /\ resetReqs'[r].token \in spent)
            => /\ Refused(resetReqs'[r])
               /\ users' = users]_vars

\* C4 witness: a well-formed reset-password carrying a token that an earlier
\* reset has used was refused with invalid-reset-token.
C4_Witness ==
    \E r \in ReqIds :
        /\ resetReqs[r].op = "resetPassword" /\ resetReqs[r].pc = "done"
        /\ resetReqs[r].token \in spent
        /\ WellFormed(resetReqs[r])
        /\ resetReqs[r].code = "invalid-reset-token"

\* C5: a stored reset token expires 30 minutes after forgot-password issued
\* it, and a reset-password or validate-reset-token request that arrives 30
\* minutes or more after its token was issued is refused (with
\* invalid-reset-token when its body is well-formed) and changes no user.
C5_TokenTimeBounded ==
    [][/\ \A u \in UserIds, t \in 1..tokenSeq :
            users'[u].resetPasswordToken = Sha256(t)
            => users'[u].resetPasswordExpires = issuedAt'[t] + 30 * 60
       /\ \A r \in ReqIds :
            (/\ TokenLookup(r)
             /\ resetReqs'[r].token \in 1..tokenSeq
             /\ now >= issuedAt[resetReqs'[r].token] + 30 * 60)
            => /\ Refused(resetReqs'[r])
               /\ users' = users]_vars

\* C5 witness: a well-formed reset-password carrying the token the user still
\* holds, never used, arrived 30 minutes or more after the token was issued
\* and was refused with invalid-reset-token.
C5_Witness ==
    \E r \in ReqIds, u \in UserIds :
        /\ resetReqs[r].op = "resetPassword" /\ resetReqs[r].pc = "done"
        /\ resetReqs[r].token \in 1..tokenSeq
        /\ resetReqs[r].token \notin spent
        /\ users[u].resetPasswordToken = Sha256(resetReqs[r].token)
        /\ now >= issuedAt[resetReqs[r].token] + 30 * 60
        /\ WellFormed(resetReqs[r])
        /\ resetReqs[r].code = "invalid-reset-token"

\* A signup request is answered in this step.
SignupAnswered(r) ==
    /\ authReqs[r].pc # "done"
    /\ authReqs'[r].op = "signup" /\ authReqs'[r].pc = "done"

\* C6: at most one User document exists per email, and a signup answered while
\* a stored user already has its email (the schema lowercases it) creates no
\* user and is not answered 201, whatever other signups are in flight.
C6_SignupUniqueEmail ==
    [][/\ \A u \in DOMAIN users', v \in DOMAIN users' :
            users'[u].email = users'[v].email => u = v
       /\ \A r \in ReqIds :
            (SignupAnswered(r) /\ UsersWithEmail(Lower(authReqs'[r].email)) # {})
            => /\ users' = users
               /\ authReqs'[r].status # 201]_vars

\* C6 witness: a signup with valid fields passed the existence check, found
\* the email taken at insert time and was refused by the unique index.
C6_Witness ==
    \E r \in ReqIds :
        /\ authReqs[r].op = "signup" /\ authReqs[r].pc = "done"
        /\ authReqs[r].status = 500
        /\ Len(authReqs[r].password) >= 8
        /\ UsersWithEmail(Lower(authReqs[r].email)) # {}

\* A login request is taken and answered in this step.
LoginAnswered(r) ==
    /\ authReqs[r].pc = "idle"
    /\ authReqs'[r].op = "login"

\* The stored users with the request's email whose password it matches
Matching(q) ==
    {u \in UsersWithEmail(Lower(q.email)) : comparePassword(users[u].password, q.password)}

GoogleOnly(u) == users[u].googleId # Undef /\ users[u].password = NoPassword

\* A token is issued only to an existing, verified user whose password the
\* request matches; every other login is an error without a token.
TokenOnlyWhenEntitled(q) ==
    /\ q.token # NoJwt =>
          /\ q.status = 200
          /\ \E u \in Matching(q) :
                users[u].isEmailVerified /\ q.token = SignJwt(u, now)
    /\ q.token = NoJwt => q.status \in {400, 401, 403}
    /\ (\A u \in Matching(q) : ~users[u].isEmailVerified) => q.token = NoJwt

\* C7 as stated: token only when entitled; a login carrying an email and a
\* password gets 401 invalid-credentials when the email is unknown or the
\* password does not match, 403 email-not-verified when the password matches
\* and the email is unverified.
C7_LoginAsStated ==
    [][\A r \in ReqIds : LoginAnswered(r) =>
        LET q == authReqs'[r] IN
        /\ TokenOnlyWhenEntitled(q)
        /\ (q.email # "" /\ q.password # "") =>
              /\ Matching(q) = {} =>
                    q.status = 401 /\ q.code = "invalid-credentials"
              /\ (\E u \in Matching(q) : ~users[u].isEmailVerified) =>
                    q.status = 403 /\ q.code = "email-not-verified"]_vars

\* C7 (amended): token only when entitled; the errors are 400
\* missing-credentials when email or password is missing, otherwise 401
\* invalid-credentials for an unknown email, 401 google-auth-required for an
\* account with a googleId and no password, 401 invalid-credentials for a
\* password that does not match, 403 email-not-verified for a matching
\* password on an unverified email.
C7_Login ==
    [][\A r \in ReqIds : LoginAnswered(r) =>
        LET q == authReqs'[r]
            found == UsersWithEmail(Lower(q.email)) IN
        /\ TokenOnlyWhenEntitled(q)
        /\ IF q.email = "" \/ q.password = ""
           THEN q.status = 400 /\ q.code = "missing-credentials"
           ELSE IF found = {}
           THEN q.status = 401 /\ q.code = "invalid-credentials"
           ELSE IF \E u \in found : GoogleOnly(u)
           THEN q.status = 401 /\ q.code = "google-auth-required"
           ELSE IF Matching(q) = {}
           THEN q.status = 401 /\ q.code = "invalid-credentials"
           ELSE IF \E u \in Matching(q) : ~users[u].isEmailVerified
           THEN q.status = 403 /\ q.code = "email-not-verified"
           ELSE q.status = 200 /\ q.token # NoJwt]_vars

\* C7 witness: a login with email and password for an account created through
\* Google, which has no password, was answered google-auth-required.
C7_Witness ==
    \E r \in ReqIds :
        /\ authReqs[r].op = "login" /\ authReqs[r].pc = "done"
        /\ authReqs[r].email # "" /\ authReqs[r].password # ""
        /\ \E u \in UsersWithEmail(Lower(authReqs[r].email)) : GoogleOnly(u)
        /\ authReqs[r].status = 401 /\ authReqs[r].code = "google-auth-required"

\* C8: a protected-route request bearing an unexpired token that login or
\* googleAuth returned passes the auth middleware, with req.user the user the
\* token was returned to.
C8_JwtAccepted ==
    [][\A r \in ReqIds :
        (/\ authReqs[r].pc = "idle"
         /\ authReqs'[r].op = "auth"
         /\ authReqs'[r].bearer \in {j.token : j \in jwts}
         /\ now < authReqs'[r].bearer.exp)
        => /\ authReqs'[r].code = "next"
           /\ [token |-> authReqs'[r].bearer, user |-> authReqs'[r].reqUser] \in jwts]_vars

\* C9: a POST /api/subscriptions whose lookup finds the user's subscription to
\* the bot active is answered 409 already-subscribed and writes nothing: the
\* subscription store is left exactly as it was, however often it is repeated.
C9_SubscribeIdempotent ==
    [][\A r \in ReqIds :
        (/\ subReqs[r].pc = "idle"
         /\ subReqs'[r].op = "subscribe"
         /\ \E s \in SubsOf(subReqs'[r].user, subReqs'[r].bot) : s.status = "active")
        => /\ subReqs'[r].pc = "done"
           /\ subReqs'[r].status = 409
           /\ subReqs'[r].code = "already-subscribed"
           /\ subs' = subs
           /\ subSeq' = subSeq]_vars

\* C9 witness: a subscribe request of a user holding an active subscription
\* to the bot was answered already-subscribed, later than the subscription
\* was made.
C9_Witness ==
    \E r \in ReqIds :
        /\ subReqs[r].op = "subscribe" /\ subReqs[r].pc = "done"
        /\ subReqs[r].code = "already-subscribed"
        /\ \E s \in SubsOf(subReqs[r].user, subReqs[r].bot) :
              s.status = "active" /\ s.updatedAt < now

\* C10: there is at most one BotSubscription document per (userId, botId).
C10_OneSubscriptionPerPair ==
    \A s \in subs, t \in subs :
        (s.userId = t.userId /\ s.botId = t.botId) => s = t

\* C10 witness: of two subscribe requests for one pair that both found no
\* subscription, the second insert was refused by the unique index.
C10_Witness ==
    \E r \in ReqIds :
        /\ subReqs[r].op = "subscribe" /\ subReqs[r].pc = "done"
        /\ subReqs[r].status = 500
        /\ SubsOf(subReqs[r].user, subReqs[r].bot) # {}

\* C11: every error response (HTTP status 400 or above) has the fields status,
\* message and code in its JSON body.
C11_ErrorEnvelope ==
    response.http >= 400 =>
        {"status", "message", "code"} \subseteq DOMAIN response.body

\* C12: the error handler answers an AppError with its status code, its
\* message and status "fail" for 4xx, "error" for 5xx; it answers any other
\* error with 500, status "error" and the generic message.
C12_ErrorHandler ==
    (thrown # NoError /\ response # NoResponse) =>
        IF thrown.name = "AppError"
        THEN /\ response.http = thrown.statusCode
             /\ response.body.message = thrown.message
             /\ (400 <= thrown.statusCode /\ thrown.statusCode < 500)
                   => response.body.status = "fail"
             /\ (500 <= thrown.statusCode /\ thrown.statusCode < 600)
                   => response.body.status = "error"
        ELSE /\ response.http = 500
             /\ response.body.status = "error"
             /\ response.body.message = GenericMessage

\* C12 witness: an error that is no AppError, with a message of its own, was
\* answered 500 with the generic message.
C12_Witness ==
    /\ thrown.name = "Error" /\ thrown.message # GenericMessage
    /\ response.http = 500
    /\ response.body.message = GenericMessage

\* C13: every forgot-password request that carries an email is answered as a
\* request for an unknown email is answered (200 with the generic message),
\* whether or not the email belongs to a stored user.
C13_ForgotPasswordUniform ==
    \A r \in ReqIds :
        (/\ resetReqs[r].op = "forgotPassword" /\ resetReqs[r].pc = "done"
         /\ resetReqs[r].code # "missing-email")
        => resetReqs[r].status = 200

\* C14: no two users' KYC records hold the same PAN, and no two hold the same
\* Aadhar number.
C14_KycUnique ==
    \A k \in kycs, l \in kycs :
        k.userId # l.userId => (k.pan # l.pan /\ k.aadharNumber # l.aadharNumber)

\* C14 witness: a submission passed the check for other users' records, and
\* by the time it wrote another user held its PAN or Aadhar number: the
\* unique index refused the write.
C14_Witness ==
    \E r \in ReqIds :
        /\ kycReqs[r].op = "basicDetails" /\ kycReqs[r].pc = "done"
        /\ kycReqs[r].status = 500 /\ kycReqs[r].code = ""
        /\ OthersWith(kycReqs[r].user, Upper(kycReqs[r].pan), kycReqs[r].aadharNumber) # {}

\* C15: every stored bot's groupId is the _id of a stored group.
C15_BotGroupExists ==
    \A b \in bots : GroupById(b.groupId) # {}

\* C18: GET /api/bots/subscribed is answered 200 with exactly the bots the
\* user holds an active subscription to.
C18_SubscribedBots ==
    \A r \in ReqIds :
        (/\ botReqs[r].op = "GET" /\ botReqs[r].pc = "done"
         /\ botReqs[r].path = <<Lit("subscribed")>>)
        => /\ botReqs[r].status = 200
           /\ botReqs[r].data = ActiveBotIds(botReqs[r].user)

\* C16: the phone endpoint answers "Phone number is already verified" (the 400
\* of the comparison step) only when the user's phone number is verified.
C16_RejectsOnlyVerified ==
    [][\A r \in ReqIds :
         (/\ otpReqs[r].op = "updatePhone" /\ otpReqs[r].pc = "cooldown"
          /\ otpReqs'[r].pc = "done" /\ otpReqs'[r].status = 400)
         => users[otpReqs[r].user].isPhoneVerified]_vars

\* C17: tradeId uniqueness is per bot: a request that reaches Signal.create
\* while its bot holds no signal with that tradeId is answered 201, whatever
\* other bots hold.
C17_TradeIdPerBot ==
    [][\A r \in ReqIds :
         (/\ signalReqs[r].pc = "create" /\ signalReqs'[r].pc = "done"
          /\ SignalsOf(signalReqs[r].botId, signalReqs[r].tradeId) = {})
         => signalReqs'[r].status = 201]_vars

\* C19: an OTP record is consumed at most once: a verification returns true
\* only for a record no other verification has returned true for.
C19_ConsumedOnce ==
    [][\A r \in ReqIds :
         (/\ otpReqs[r].op = "verifyOTP" /\ otpReqs[r].pc = "delete"
          /\ otpReqs'[r].ret = "true")
         => otpReqs[r].rec.id \notin consumed]_vars

\* C20: a reset token changes the password at most once: the save step of a
\* reset-password request succeeds only with a token no earlier request has
\* reset a password with.
C20_ResetOnce ==
    [][\A r \in ReqIds :
         (/\ resetReqs[r].op = "resetPassword" /\ resetReqs[r].pc = "save"
          /\ resetReqs'[r].pc = "done" /\ resetReqs'[r].status = 200)
         => resetReqs[r].token \notin spent]_vars

\* the records a verification may still succeed on: issued with the asked
\* subject, type and code, not consumed, not expired
Outstanding(q) == {o \in AskedFor(q) : o.id \notin consumed /\ now < o.expiresAt}

\* C21: issuing an OTP leaves every stored OTP in place, so several unexpired
\* OTPs can be outstanding for one subject and type, and a verification of a
\* code that has an outstanding record succeeds on such a record.
C21_OlderStaysValid ==
    [][/\ otpSeq' = otpSeq + 1 => otps \subseteq otps'
       /\ \A r \in ReqIds : VerifyLookup(r) =>
             LET q == otpReqs'[r] IN
             Outstanding(q) # {} => (q.pc = "delete" /\ q.rec \in Outstanding(q))]_vars

\* C21 witness: a verification has succeeded on an OTP while a newer unexpired
\* OTP for the same subject and type, issued at least 60 seconds later, is stored.
C21_Witness ==
    \E r \in ReqIds :
        /\ otpReqs[r].op = "verifyOTP" /\ otpReqs[r].pc = "delete"
        /\ \E o \in otps :
             /\ o.type = otpReqs[r].rec.type
             /\ OtpSubject(o) = OtpSubject(otpReqs[r].rec)
             /\ o.createdAt >= otpReqs[r].rec.createdAt + DefaultCooldownSeconds
             /\ o.createdAt < otpReqs[r].rec.expiresAt
             /\ now < o.expiresAt

\* C22: the KYC sections are completed in order: a record holds experience
\* only with capitalManagement, capitalManagement only with riskProfiling;
\* every section lives in a record that holds basic details.
C22_SectionsInOrder ==
    \A k \in kycs :
        /\ "experience" \in k.sections => "capitalManagement" \in k.sections
        /\ "capitalManagement" \in k.sections => "riskProfiling" \in k.sections
        /\ k.sections # {} => (k.pan # "" /\ k.aadharNumber # "")

\* C22 witness: a record holds all three sections, and a submission of a
\* section whose predecessor is missing on another record was refused.
C22_Witness ==
    /\ \E k \in kycs : k.sections = KycSections
    /\ \E r \in ReqIds :
         /\ kycReqs[r].pc = "done" /\ kycReqs[r].status = 400
         /\ kycReqs[r].code \in {"risk-profiling-required", "capital-management-required"}

\* C23: when the phone verification endpoint answers success for a number, the
\* user's stored phoneNumber is that number and isPhoneVerified is true.
C23_VerifiedNumberStored ==
    [][\A r \in ReqIds :
         (/\ otpReqs[r].op = "verifyPhoneOTP" /\ otpReqs[r].pc = "update"
          /\ otpReqs'[r].pc = "done" /\ otpReqs'[r].status = 200)
         => /\ users'[otpReqs[r].user].phoneNumber = otpReqs[r].phone
            /\ users'[otpReqs[r].user].isPhoneVerified]_vars

\* the email OTPs issued for an address that a verification has succeeded on
VerifiedOtps(email) ==
    {o \in issued : o.type = "email" /\ o.email = email /\ o.id \in consumed}

\* C24: a user's isEmailVerified is true only if an email OTP issued for the
\* address the user holds was verified; the flag is raised only by the
\* verification's update for the address the user holds at that moment; a
\* profile update that sets the email leaves the flag false.
C24_EmailVerifiedByOtp ==
    /\ [](\A u \in UserIds :
            users[u].isEmailVerified => VerifiedOtps(users[u].email) # {})
    /\ [][/\ \A u \in UserIds :
               (~users[u].isEmailVerified /\ users'[u].isEmailVerified) =>
                  \E r \in ReqIds :
                     /\ otpReqs[r].op = "verifyEmailOTP" /\ otpReqs[r].pc = "update"
                     /\ otpReqs'[r].pc = "done"
                     /\ otpReqs[r].email = users[u].email
                     /\ users'[u].email = users[u].email
          /\ \A r \in ReqIds :
               (/\ otpReqs[r].op = "updateProfile" /\ otpReqs[r].pc = "update"
                /\ otpReqs[r].email # ""
                /\ otpReqs'[r].pc = "done" /\ otpReqs'[r].status = 200)
               => /\ users'[otpReqs[r].user].email = otpReqs[r].email
                  /\ ~users'[otpReqs[r].user].isEmailVerified]_vars

\* C24 witness: a user whose address was verified has changed it through the
\* profile update and is unverified under the new address.
C24_Witness ==
    \E r \in ReqIds, u \in UserIds :
        /\ otpReqs[r].op = "updateProfile" /\ otpReqs[r].pc = "done"
        /\ otpReqs[r].status = 200
        /\ ~users[u].isEmailVerified
        /\ VerifiedOtps(users[u].email) = {}
        /\ \E e \in Emails : e # users[u].email /\ VerifiedOtps(e) # {}

\* C27: a send-email-otp request that fails because the mail could not be
\* sent leaves no OTP record of its own behind, so the address is not in
\* cooldown because of it.
C27_FailedSendLeavesNoOtp ==
    [][\A r \in ReqIds :
         (/\ otpReqs[r].op = "sendEmailOTP" /\ otpReqs[r].pc = "send"
          /\ otpReqs'[r].pc = "done" /\ otpReqs'[r].status = 500)
         => /\ \A o \in otps' : ~(o.type = "email" /\ o.email = otpReqs[r].email
                                  /\ o.createdAt = now)
            /\ ~checkOTPCooldown(otpReqs[r].email, "email", now)]_vars

\* C25: a stored subscription is cancelled exactly when its cancelledAt is
\* set; a subscribe request that finds the pair's subscription cancelled goes
\* on to reactivate that record, and the reactivation creates no record and
\* leaves the record active, without cancelledAt, with its subscribedAt.
C25_CancelledIffDated ==
    /\ [](\A s \in subs : s.status = "cancelled" <=> s.cancelledAt # NoDate)
    /\ [][\A r \in ReqIds :
            /\ (/\ subReqs[r].pc = "idle" /\ subReqs'[r].op = "subscribe"
                /\ subReqs'[r].bot \in Bots
                /\ \E s \in SubsOf(subReqs'[r].user, subReqs'[r].bot) : s.status = "cancelled")
               => /\ subReqs'[r].pc = "reactivate"
                  /\ SubById(subReqs'[r].sub) = SubsOf(subReqs'[r].user, subReqs'[r].bot)
            /\ (/\ subReqs[r].pc = "reactivate" /\ subReqs'[r].pc = "done"
                /\ subReqs'[r].status = 200)
               => /\ subSeq' = subSeq
                  /\ {s.id : s \in subs'} = {s.id : s \in subs}
                  /\ \A s \in SubById(subReqs[r].sub) :
                        \E t \in subs' :
                           /\ t.id = s.id /\ t.userId = s.userId /\ t.botId = s.botId
                           /\ t.status = "active" /\ t.cancelledAt = NoDate
                           /\ t.subscribedAt = s.subscribedAt]_vars

\* C25 witness: a cancelled subscription has been reactivated by a later
\* subscribe request: it is active, undated, and was subscribed earlier.
C25_Witness ==
    \E r \in ReqIds :
        /\ subReqs[r].op = "subscribe" /\ subReqs[r].pc = "done"
        /\ subReqs[r].status = 200
        /\ \E s \in SubsOf(subReqs[r].user, subReqs[r].bot) :
              /\ s.status = "active" /\ s.cancelledAt = NoDate
              /\ s.subscribedAt < s.updatedAt

\* C26: a GET, cancel or DELETE request naming a subscription of another user
\* is answered 404 subscription-not-found and changes no subscription.
C26_OwnerOnly ==
    [][\A r \in ReqIds :
         (/\ subReqs[r].pc = "idle"
          /\ subReqs'[r].op \in {"get", "cancel", "delete"}
          /\ \E s \in SubById(subReqs'[r].sub) : s.userId # subReqs'[r].user)
         => /\ subReqs'[r].pc = "done"
            /\ subReqs'[r].status = 404
            /\ subReqs'[r].code = "subscription-not-found"
            /\ subs' = subs]_vars

\* C26 witness: a cancel or DELETE request naming another user's active
\* subscription was answered 404, and the subscription is still there, active.
C26_Witness ==
    \E r \in ReqIds :
        /\ subReqs[r].op \in {"cancel", "delete"} /\ subReqs[r].pc = "done"
        /\ subReqs[r].status = 404
        /\ \E s \in SubById(subReqs[r].sub) :
              s.userId # subReqs[r].user /\ s.status = "active"

====
